---- MODULE Spec2Model ----
(***************************************************************************)
(* Central Florida Events (src/app.js): the moderation workflow, the       *)
(* scrape preview queue, event submission and the review form, as a state  *)
(* machine over AppState, scrapedEventsCache and localStorage.             *)
(*                                                                         *)
(* Numbers.  An id is Date.now(), or Date.now() + Math.random().  An id is *)
(* kept here as an integer counted in units of 1/FracSteps of a            *)
(* millisecond: ms * FracSteps + fraction.  Curated ids are the small      *)
(* integers of events-data.js; Date.now() lies far above them.             *)
(*                                                                         *)
(* Objects.  AppState.events holds references to the draft objects of      *)
(* AppState.userSubmittedEvents, so a status written through one list is   *)
(* read through the other.  Each draft object of userSubmittedEvents has   *)
(* a number obj, its position in that list; a record of events with that   *)
(* number is a reference to it and a write of status updates every record  *)
(* with the number.  Curated events and the events of the scrape preview   *)
(* carry obj 0.                                                            *)
(***************************************************************************)
EXTENDS Integers, Sequences, FiniteSets, TLC

VARIABLES
    userSubmittedEvents,  \* AppState.userSubmittedEvents
    savedEvents,          \* AppState.savedEvents, a set of ids
    isAdmin,              \* AppState.isAdmin
    events,               \* AppState.events, the public view
    reviews,              \* AppState.reviews
    currentEventId,       \* AppState.currentEventId
    scrapedEventsCache,   \* let scrapedEventsCache
    stars,                \* number of .star.filled elements of the review form
    reviewText,           \* value of the #reviewText field
    store,                \* localStorage
    now,                  \* the last value Date.now() returned
    lastAlert,            \* message of the alert() the last handler raised
    deletedIds,           \* ids deleteEvent removed in this session
    scenario,             \* progress of approve, reject, approve on one id
    hostZone,             \* the host's time zone: hours local time is ahead of UTC
    args,                 \* the arguments of a function called on its own
    returned              \* what that call returned

vars == << userSubmittedEvents, savedEvents, isAdmin, events, reviews,
           currentEventId, scrapedEventsCache, stars, reviewText, store, now,
           lastAlert, deletedIds, scenario, hostZone, args, returned >>

(* What the handlers of the page leave alone *)
callVars == << hostZone, args, returned >>

----------------------------------------------------------------------------
(* Bounds *)

MaxNow == 1

MaxDrafts == 2

(* The number of fractions of a millisecond Math.random() can add to an id *)
FracSteps == 2

(* Program constants *)

Null == 0

NaN == -1000000

(* A date text that does not parse *)
Unparseable == NaN - 1

MaxStars == 5

MinReviewLength == 10

BudgetMax == 20

ModerateMax == 50

HoursPerDay == 24

(* description.substring(0, 500) *)
MaxDescription == 500

NoAlert == "none"

(* No function has been called on its own *)
NoCall == [ op |-> "none" ]

----------------------------------------------------------------------------
(* Sequences *)

Min(a, b) == IF a <= b THEN a ELSE b

FilterOutId(seq, eventId) ==
    SelectSeq(seq, LAMBDA e : e.id # eventId)

FindIndex(seq, eventId) ==
    IF \E i \in 1..Len(seq) : seq[i].id = eventId
    THEN CHOOSE i \in 1..Len(seq) :
            /\ seq[i].id = eventId
            /\ \A j \in 1..(i - 1) : seq[j].id # eventId
    ELSE 0

RemoveAt(seq, i) ==
    [ j \in 1..(Len(seq) - 1) |-> IF j < i THEN seq[j] ELSE seq[j + 1] ]

CountId(seq, eventId) ==
    Cardinality({ i \in 1..Len(seq) : seq[i].id = eventId })

IdsOf(seq) == { seq[i].id : i \in 1..Len(seq) }

(* Array.prototype.sort with a comparator a - b on Key: ascending by Key,  *)
(* elements of equal Key in their order before the sort                    *)
(* keys[i] is the Key of seq[i]                                            *)
SortIndex(keys, i) ==
    1 + Cardinality({ j \in 1..Len(keys) :
                        \/ keys[j] < keys[i]
                        \/ keys[j] = keys[i] /\ j < i })

StableSort(seq, keys) ==
    [ k \in 1..Len(seq) |->
        seq[CHOOSE i \in 1..Len(seq) : SortIndex(keys, i) = k] ]

(* The number of the draft object that push() appends to drafts *)
NewObject(drafts) == Len(drafts) + 1

(* The position in drafts.filter(e => e.id !== eventId) of the object that *)
(* was at position obj, 0 for an object the filter drops                   *)
ObjectAfterFilter(drafts, eventId, obj) ==
    IF obj = 0 \/ obj > Len(drafts) \/ drafts[obj].id = eventId THEN 0
    ELSE Cardinality({ i \in 1..obj : drafts[i].id # eventId })

Renumbered(seq, drafts, eventId) ==
    [ k \in 1..Len(seq) |->
        [ seq[k] EXCEPT !.obj = ObjectAfterFilter(drafts, eventId, seq[k].obj) ] ]

(* event.status = status, seen through every reference to the object *)
SetStatus(seq, obj, status) ==
    [ k \in 1..Len(seq) |->
        IF seq[k].obj = obj THEN [ seq[k] EXCEPT !.status = status ] ELSE seq[k] ]

----------------------------------------------------------------------------
(* The curated baseline of events-data.js: plain events with small integer *)
(* ids and no status field (status reads as undefined).                    *)

CuratedEvent(n, price, priceCategory) ==
    [ id |-> n * FracSteps, obj |-> 0, status |-> "undefined", price |-> price,
      priceCategory |-> priceCategory, userSubmitted |-> FALSE ]

EVENTS_DATA == << CuratedEvent(1, 0, "free"), CuratedEvent(2, 25, "moderate") >>

----------------------------------------------------------------------------
(* Date.now(), Math.random() and the ids built from them *)

Clock == (Len(EVENTS_DATA) + 1)..(Len(EVENTS_DATA) + MaxNow)

(* Math.random() is in [0, 1): the least and the greatest fraction it adds *)
Fractions == { 0, FracSteps - 1 }

DateNowId(t) == t * FracSteps

(* new Date().toISOString().split('T')[0]: the day, in UTC, of Date.now() *)
ExtractionDate(t) == t \div (1000 * 60 * 60 * HoursPerDay)

RandomId(t, r) == t * FracSteps + r

ParseInt(id) == (id \div FracSteps) * FracSteps

(* Date.now() does not decrease, so an id below the current millisecond    *)
(* cannot be assigned again: of the deleted ids only those that a later    *)
(* Date.now() could still produce are remembered.                          *)
Assignable(ids, t) == { id \in ids : id >= DateNowId(t) }

----------------------------------------------------------------------------
(* Prices *)

PriceCategoryOfForm(price) ==
    IF price = 0 THEN "free"
    ELSE IF price # NaN /\ price <= BudgetMax THEN "budget"
    ELSE IF price # NaN /\ price <= ModerateMax THEN "moderate"
    ELSE "premium"

PriceCategoryOfScrape(price) ==
    IF price # NaN /\ price > 0 /\ price <= BudgetMax THEN "budget"
    ELSE IF price # NaN /\ price > BudgetMax /\ price <= ModerateMax THEN "moderate"
    ELSE IF price # NaN /\ price > ModerateMax THEN "premium"
    ELSE "free"

PriceCategoryOfEdit(price) ==
    IF price = 0 THEN "free"
    ELSE IF price # NaN /\ price <= BudgetMax THEN "budget"
    ELSE IF price # NaN /\ price <= ModerateMax THEN "moderate"
    ELSE "premium"

(* parseFloat on the price strings the model feeds in *)
ParseFloat(s) ==
    CASE s = "0" -> 0
      [] s = "20" -> 20
      [] s = "21" -> 21
      [] s = "25" -> 25
      [] s = "50" -> 50
      [] s = "51" -> 51
      [] s = "-5" -> 0 - 5
      [] OTHER -> NaN

(* priceText.match(/\$?(\d+(?:\.\d{2})?)/): the first run of digits, or no match *)
PriceMatch(s) ==
    CASE s = "$25" -> "25"
      [] s = "$51" -> "51"
      [] s = "-5" -> "5"
      [] s = "20" -> "20"
      [] s = "Doors 7 pm" -> "7"
      [] s = "8:00 PM" -> "8"
      [] s = "2026-03-05" -> "2026"
      [] OTHER -> "no match"

ParseMatched(s) ==
    CASE s = "5" -> 5
      [] s = "7" -> 7
      [] s = "8" -> 8
      [] s = "2026" -> 2026
      [] OTHER -> ParseFloat(s)

----------------------------------------------------------------------------
(* localStorage *)

(* The keys userSubmittedEvents, savedEvents, reviews and isAdmin.  The     *)
(* key adminPassword always holds the one value the script starts with.    *)
EmptyStore ==
    [ written |-> FALSE, userSubmittedEvents |-> << >>, savedEvents |-> {},
      reviews |-> << >>, isAdmin |-> "null" ]

(* JSON.stringify writes a number that is NaN as null *)
JsonNull == NaN - 2

JsonNumber(n) == IF n = NaN THEN JsonNull ELSE n

(* JSON.stringify(AppState.userSubmittedEvents), as JSON.parse reads it *)
JsonEvents(drafts) ==
    [ k \in 1..Len(drafts) |-> [ drafts[k] EXCEPT !.price = JsonNumber(@) ] ]

(* AppState.isAdmin.toString() *)
BooleanToString(b) == IF b THEN "true" ELSE "false"

StoredState(drafts, saved, revs, admin) ==
    [ written |-> TRUE, userSubmittedEvents |-> JsonEvents(drafts),
      savedEvents |-> saved, reviews |-> revs, isAdmin |-> BooleanToString(admin) ]

(* saveStateToLocalStorage in a handler that leaves savedEvents and        *)
(* isAdmin as they are                                                     *)
saveStateToLocalStorage(drafts, revs) ==
    StoredState(drafts, savedEvents, revs, isAdmin)

----------------------------------------------------------------------------
(* The monitor of the moderation scenario approve, reject, approve *)

Idle == [ id |-> Null, step |-> 0 ]

HasPending(eventId) ==
    \E i \in 1..Len(userSubmittedEvents) :
        /\ userSubmittedEvents[i].id = eventId
        /\ userSubmittedEvents[i].status = "pending"

ScenarioAfterApprove(eventId) ==
    IF scenario.step = 2 /\ scenario.id = eventId THEN [ id |-> eventId, step |-> 3 ]
    ELSE IF HasPending(eventId) THEN [ id |-> eventId, step |-> 1 ]
    ELSE Idle

ScenarioAfterReject(eventId) ==
    IF scenario.step = 1 /\ scenario.id = eventId THEN [ id |-> eventId, step |-> 2 ]
    ELSE Idle

----------------------------------------------------------------------------
PageLoaded ==
    /\ userSubmittedEvents = << >>
    /\ savedEvents = {}
    /\ isAdmin = FALSE
    /\ events = EVENTS_DATA
    /\ reviews = << >>
    /\ currentEventId = Null
    /\ scrapedEventsCache = << >>
    /\ stars = 0
    /\ reviewText = << >>
    /\ store = EmptyStore
    /\ now = Len(EVENTS_DATA) + 1
    /\ lastAlert = NoAlert
    /\ deletedIds = {}
    /\ scenario = Idle

Init ==
    /\ PageLoaded
    /\ hostZone = 0
    /\ args = NoCall
    /\ returned = NoCall

(* AppState.events = [...EVENTS_DATA, ...approved drafts of the store] *)
RestartView ==
    IF store.written
    THEN EVENTS_DATA \o SelectSeq(store.userSubmittedEvents,
                                  LAMBDA e : e.status = "approved")
    ELSE EVENTS_DATA

(* The page is loaded again: the script starts over and                  *)
(* loadStateFromLocalStorage rebuilds AppState from the store.           *)
loadStateFromLocalStorage ==
    /\ userSubmittedEvents' = store.userSubmittedEvents
    /\ savedEvents' = store.savedEvents
    /\ isAdmin' = (store.isAdmin = "true")
    /\ events' = RestartView
    /\ reviews' = store.reviews
    /\ currentEventId' = Null
    /\ scrapedEventsCache' = << >>
    /\ stars' = 0
    /\ reviewText' = << >>
    /\ lastAlert' = NoAlert
    /\ deletedIds' = {}
    /\ scenario' = Idle
    /\ UNCHANGED << store, now >>

----------------------------------------------------------------------------
(* Event submission form *)

(* A description is kept as its length in characters *)
FormDraft(t, price, date, description) ==
    [ id |-> DateNowId(t), obj |-> NewObject(userSubmittedEvents),
      status |-> "pending", price |-> price,
      priceCategory |-> PriceCategoryOfForm(price), userSubmitted |-> TRUE,
      date |-> date, description |-> description ]

handleEventSubmission(t, price, date, description, vibesChecked) ==
    /\ t >= now
    /\ IF vibesChecked = 0
       THEN /\ lastAlert' = "Please select at least one event vibe"
            /\ UNCHANGED << userSubmittedEvents, store, now >>
       ELSE /\ Len(userSubmittedEvents) < MaxDrafts
            /\ userSubmittedEvents' = Append(userSubmittedEvents,
                                          FormDraft(t, price, date, description))
            /\ store' = saveStateToLocalStorage(userSubmittedEvents', reviews)
            /\ now' = t
            /\ lastAlert' = "Event submitted successfully! Your event is pending administrator approval and will be visible once approved."
    /\ scenario' = Idle
    /\ deletedIds' = Assignable(deletedIds, now')
    /\ UNCHANGED << savedEvents, isAdmin >>
    /\ UNCHANGED << events, reviews, currentEventId, scrapedEventsCache, stars,
                    reviewText >>

----------------------------------------------------------------------------
(* Moderation *)

(* AppState.events.push(event) *)
ViewAfterApprove_NotAfterReject(view, event) ==
    IF \E k \in 1..Len(userSubmittedEvents) :
          /\ userSubmittedEvents[k].obj = event.obj
          /\ userSubmittedEvents[k].status = "rejected"
    THEN view
    ELSE Append(SetStatus(view, event.obj, "approved"), event)

ViewAfterApprove(view, event) ==
    Append(SetStatus(view, event.obj, "approved"), event)

(* if (wasApproved) AppState.events = AppState.events.filter(e => e.id !== eventId) *)
ViewAfterReject_NoRetract(view, obj, eventId, wasApproved) ==
    SetStatus(view, obj, "rejected")

ViewAfterReject_InvertedFilter(view, obj, eventId, wasApproved) ==
    IF wasApproved
    THEN SelectSeq(SetStatus(view, obj, "rejected"), LAMBDA e : e.id = eventId)
    ELSE SetStatus(view, obj, "rejected")

ViewAfterReject(view, obj, eventId, wasApproved) ==
    IF wasApproved
    THEN FilterOutId(SetStatus(view, obj, "rejected"), eventId)
    ELSE SetStatus(view, obj, "rejected")

(* if (event && event.status === 'approved') AppState.events = ...filter(...) *)
ViewAfterDelete_NoRetract(view, drafts, i, eventId) ==
    Renumbered(view, drafts, eventId)

ViewAfterDelete(view, drafts, i, eventId) ==
    Renumbered(IF i # 0 /\ drafts[i].status = "approved"
               THEN FilterOutId(view, eventId)
               ELSE view,
               drafts, eventId)

approveEvent(eventId) ==
    LET i == FindIndex(userSubmittedEvents, eventId) IN
    /\ IF i # 0
       THEN LET obj == userSubmittedEvents[i].obj IN
            /\ Len(events) < Len(EVENTS_DATA) + MaxDrafts + 1
            /\ userSubmittedEvents' = SetStatus(userSubmittedEvents, obj, "approved")
            /\ events' = ViewAfterApprove(events, userSubmittedEvents'[i])
            /\ store' = saveStateToLocalStorage(userSubmittedEvents', reviews)
            /\ lastAlert' = "Event approved successfully!"
       ELSE /\ lastAlert' = NoAlert
            /\ UNCHANGED << userSubmittedEvents, events, store >>
    /\ scenario' = ScenarioAfterApprove(eventId)
    /\ UNCHANGED << savedEvents, isAdmin >>
    /\ UNCHANGED << reviews, currentEventId, scrapedEventsCache, stars, reviewText,
                    now, deletedIds >>

rejectEvent(eventId) ==
    LET i == FindIndex(userSubmittedEvents, eventId) IN
    /\ IF i # 0
       THEN LET obj == userSubmittedEvents[i].obj
                wasApproved == userSubmittedEvents[i].status = "approved"
            IN
            /\ userSubmittedEvents' = SetStatus(userSubmittedEvents, obj, "rejected")
            /\ events' = ViewAfterReject(events, obj, eventId, wasApproved)
            /\ store' = saveStateToLocalStorage(userSubmittedEvents', reviews)
            /\ lastAlert' = "Event rejected successfully!"
       ELSE /\ lastAlert' = NoAlert
            /\ UNCHANGED << userSubmittedEvents, events, store >>
    /\ scenario' = ScenarioAfterReject(eventId)
    /\ UNCHANGED << savedEvents, isAdmin >>
    /\ UNCHANGED << reviews, currentEventId, scrapedEventsCache, stars, reviewText,
                    now, deletedIds >>

deleteEvent(eventId, confirmed) ==
    LET i == FindIndex(userSubmittedEvents, eventId) IN
    /\ IF confirmed
       THEN /\ events' = ViewAfterDelete(events, userSubmittedEvents, i, eventId)
            /\ userSubmittedEvents' =
                   Renumbered(FilterOutId(userSubmittedEvents, eventId),
                              userSubmittedEvents, eventId)
            /\ store' = saveStateToLocalStorage(userSubmittedEvents', reviews)
            /\ lastAlert' = "Event deleted successfully!"
            /\ deletedIds' = IF i # 0 THEN deletedIds \cup { eventId } ELSE deletedIds
       ELSE /\ lastAlert' = NoAlert
            /\ UNCHANGED << userSubmittedEvents, events, store, deletedIds >>
    /\ scenario' = Idle
    /\ UNCHANGED << savedEvents, isAdmin >>
    /\ UNCHANGED << reviews, currentEventId, scrapedEventsCache, stars, reviewText,
                    now >>

----------------------------------------------------------------------------
(* Extraction from pasted HTML.  A document is the list of its JSON-LD     *)
(* script blocks, the list of elements the first matching container        *)
(* selector selects and the list of its h1 to h4 headings.                 *)
(* A block is unparseable (ok = FALSE) or a list of items; an item has     *)
(* its @type, its offers and its startDate.  A startDate is absent, or a   *)
(* text that gives the Invalid Date, or a date (read as midnight UTC), or  *)
(* a date and time of day without zone (read as local time).  A           *)
(* description is the length of a string (0 when the item has none) or a   *)
(* value that is not a string.                                             *)

NoStartDate == [ kind |-> "none", day |-> 0, hour |-> 0 ]

InvalidStartDate == [ kind |-> "invalid", day |-> 0, hour |-> 0 ]

DateOnly(day) == [ kind |-> "date", day |-> day, hour |-> 0 ]

LocalDateTime(day, hour) == [ kind |-> "local", day |-> day, hour |-> hour ]

Item(type, offers, startDate) ==
    [ type |-> type, offers |-> offers, startDate |-> startDate,
      description |-> 0 ]

(* a description that is a number, an object or an array *)
NotAString == 0 - 1

(* The item, or the element, with a description of its own *)
Described(part, description) == [ part EXCEPT !.description = description ]

(* The length of text.substring(0, limit) *)
Substring(length, limit) == Min(length, limit)

(* 'No description available' *)
NoDescriptionAvailable == 24

Block(ok, items) == [ ok |-> ok, items |-> items ]

Document(blocks, elements) ==
    [ blocks |-> blocks, elements |-> elements, headings |-> << >> ]

WithHeadings(doc, headings) == [ doc EXCEPT !.headings = headings ]

ScrapedDraft(id, price, date, description) ==
    [ id |-> id, obj |-> 0, status |-> "pending", price |-> price,
      priceCategory |-> PriceCategoryOfScrape(price), userSubmitted |-> TRUE,
      date |-> date, description |-> description ]

(* new Date(jsonData.startDate).toISOString().split('T')[0]: the day, in   *)
(* UTC, of the instant the text denotes                                    *)
StartDay(startDate) ==
    IF startDate.kind = "local"
    THEN (startDate.day * HoursPerDay + startDate.hour - hostZone) \div HoursPerDay
    ELSE startDate.day

JsonLdDate(startDate, t) ==
    IF startDate.kind = "none" THEN ExtractionDate(t) ELSE StartDay(startDate)

(* offers -> price: no offers, or an offer without price, leaves 0;       *)
(* parseFloat(offer.price) || 0 otherwise.                                 *)
OfferPrice(offers) ==
    IF offers \in { "none", "no price" } THEN 0
    ELSE IF ParseFloat(offers) = NaN THEN 0
    ELSE ParseFloat(offers)

(* createEventFromJsonLd: the draft, or nothing when the body throws (an   *)
(* invalid startDate at toISOString, an empty offers array at offer.price, *)
(* a description without substring)                                        *)
createEventFromJsonLd(jsonData, t, r) ==
    IF \/ jsonData.startDate.kind = "invalid"
       \/ jsonData.offers = "empty"
       \/ jsonData.description = NotAString
    THEN << >>
    ELSE << ScrapedDraft(RandomId(t, r), OfferPrice(jsonData.offers),
                         JsonLdDate(jsonData.startDate, t),
                         Substring(jsonData.description, MaxDescription)) >>

(* The items of one block that reach createEventFromJsonLd: an item whose  *)
(* @type is not a string or array throws at includes() and ends the block. *)
RECURSIVE EventItems(_)
EventItems(items) ==
    IF items = << >> THEN << >>
    ELSE IF Head(items).type = "number" THEN << >>
    ELSE IF Head(items).type = "Event" \/ Head(items).type = "MusicEvent"
         THEN << Head(items) >> \o EventItems(Tail(items))
         ELSE EventItems(Tail(items))

RECURSIVE JsonLdItems_StopAtBadBlock(_)
JsonLdItems_StopAtBadBlock(blocks) ==
    IF blocks = << >> \/ ~Head(blocks).ok THEN << >>
    ELSE EventItems(Head(blocks).items) \o JsonLdItems_StopAtBadBlock(Tail(blocks))

RECURSIVE JsonLdItems(_)
JsonLdItems(blocks) ==
    IF blocks = << >> THEN << >>
    ELSE (IF Head(blocks).ok THEN EventItems(Head(blocks).items) ELSE << >>)
         \o JsonLdItems(Tail(blocks))

RECURSIVE CreateAll(_, _, _, _)
CreateAll(items, k, t, rs) ==
    IF items = << >> THEN << >>
    ELSE createEventFromJsonLd(Head(items), t, rs[k])
         \o CreateAll(Tail(items), k + 1, t, rs)

(* extractEventsFromHtmlPatterns: one draft per selected element *)
PatternPrice(priceText) ==
    IF PriceMatch(priceText) = "no match" THEN 0
    ELSE ParseMatched(PriceMatch(priceText))

HeadingLimit == 10

(* The elements of the first selector that matches, or the first headings *)
EventElements_AllHeadings(doc) ==
    IF doc.elements # << >> THEN doc.elements ELSE doc.headings

EventElements(doc) ==
    IF doc.elements # << >> THEN doc.elements
    ELSE SubSeq(doc.headings, 1,
                IF Len(doc.headings) < HeadingLimit THEN Len(doc.headings)
                ELSE HeadingLimit)

(* description.substring(0, 500) || 'No description available' *)
PatternDescription(description) ==
    IF Substring(description, MaxDescription) = 0 THEN NoDescriptionAvailable
    ELSE Substring(description, MaxDescription)

extractEventsFromHtmlPatterns(doc, t, rs) ==
    [ k \in 1..Len(EventElements(doc)) |->
        ScrapedDraft(RandomId(t, rs[k]) + (k - 1) * FracSteps,
                     PatternPrice(EventElements(doc)[k].priceText),
                     ExtractionDate(t),
                     PatternDescription(EventElements(doc)[k].description)) ]

extractEventsFromHtml_Merged(doc, t, rs) ==
    CreateAll(JsonLdItems(doc.blocks), 1, t, rs)
        \o extractEventsFromHtmlPatterns(doc, t, rs)

extractEventsFromHtml(doc, t, rs) ==
    LET found == CreateAll(JsonLdItems(doc.blocks), 1, t, rs) IN
    IF Len(found) = 0 THEN extractEventsFromHtmlPatterns(doc, t, rs) ELSE found

NoHtml == Document(<< >>, << >>)

(* The values of Math.random() drawn for n events *)
Randoms(n) == [ 1..n -> Fractions ]

Max(a, b) == IF a >= b THEN a ELSE b

DraftCount(doc) == Max(Len(JsonLdItems(doc.blocks)), Len(EventElements(doc)))

parseScrapedHtml(venue, doc, t, rs) ==
    /\ t >= now
    /\ IF venue = ""
       THEN /\ lastAlert' = "Please enter a venue name"
            /\ UNCHANGED << scrapedEventsCache, now >>
       ELSE IF doc = NoHtml
       THEN /\ lastAlert' = "Please paste the HTML source code"
            /\ UNCHANGED << scrapedEventsCache, now >>
       ELSE LET extracted == extractEventsFromHtml(doc, t, rs) IN
            /\ now' = t
            /\ IF Len(extracted) = 0
               THEN /\ lastAlert' = "No events found in the provided HTML. Try a different page or check the HTML structure."
                    /\ UNCHANGED scrapedEventsCache
               ELSE /\ scrapedEventsCache' = extracted
                    /\ lastAlert' = "Successfully extracted ${events.length} event(s)!"
    /\ scenario' = Idle
    /\ deletedIds' = Assignable(deletedIds, now')
    /\ UNCHANGED << savedEvents, isAdmin >>
    /\ UNCHANGED << userSubmittedEvents, events, reviews, currentEventId, stars,
                    reviewText, store >>

(* scrapedEventsCache[index][field] = value, and the price category when   *)
(* the price changed.  The fields venue, time, category and externalLink,  *)
(* and the image, personalityTags and vibes that follow the category, are  *)
(* not among the fields the events carry here.                             *)
EditedEvent_StatusToo(event, field, value) ==
    [ event EXCEPT !.status = "approved" ]

EditedEvent(event, field, value) ==
    CASE field = "price" ->
             [ event EXCEPT !.price = value,
                            !.priceCategory = PriceCategoryOfEdit(value) ]
      [] field = "description" -> [ event EXCEPT !.description = value ]
      [] field = "date" -> [ event EXCEPT !.date = value ]
      [] OTHER -> event

updateScrapedEvent(index, field, value) ==
    /\ index \in 1..Len(scrapedEventsCache)
    /\ scrapedEventsCache' =
          [ scrapedEventsCache EXCEPT ![index] = EditedEvent(@, field, value) ]
    /\ lastAlert' = NoAlert
    /\ scenario' = Idle
    /\ UNCHANGED << savedEvents, isAdmin >>
    /\ UNCHANGED << userSubmittedEvents, events, reviews, currentEventId, stars,
                    reviewText, store, now, deletedIds >>

removeScrapedEvent(index) ==
    /\ scrapedEventsCache' = IF index \in 1..Len(scrapedEventsCache)
                             THEN RemoveAt(scrapedEventsCache, index)
                             ELSE scrapedEventsCache
    /\ lastAlert' = NoAlert
    /\ scenario' = Idle
    /\ UNCHANGED << savedEvents, isAdmin >>
    /\ UNCHANGED << userSubmittedEvents, events, reviews, currentEventId, stars,
                    reviewText, store, now, deletedIds >>

approveSingleScrapedEvent(index, t, r) ==
    /\ t >= now
    /\ IF index \in 1..Len(scrapedEventsCache)
       THEN /\ Len(userSubmittedEvents) < MaxDrafts
            /\ userSubmittedEvents' =
                   Append(userSubmittedEvents,
                          [ scrapedEventsCache[index] EXCEPT
                              !.id = RandomId(t, r),
                              !.obj = NewObject(userSubmittedEvents) ])
            /\ store' = saveStateToLocalStorage(userSubmittedEvents', reviews)
            /\ scrapedEventsCache' = RemoveAt(scrapedEventsCache, index)
            /\ now' = t
            /\ lastAlert' = "Event \"${event.name}\" added to pending events!"
       ELSE /\ lastAlert' = NoAlert
            /\ UNCHANGED << userSubmittedEvents, store, scrapedEventsCache, now >>
    /\ scenario' = Idle
    /\ deletedIds' = Assignable(deletedIds, now')
    /\ UNCHANGED << savedEvents, isAdmin >>
    /\ UNCHANGED << events, reviews, currentEventId, stars, reviewText >>

(* scrapedEventsCache.forEach(event => { event.id = ...; push(event) }) *)
PushAll_LastFirst(drafts, cache, k, t, rs) ==
    drafts \o [ j \in 1..Len(cache) |->
                  [ cache[Len(cache) + 1 - j] EXCEPT
                      !.id = RandomId(t, rs[j]),
                      !.obj = Len(drafts) + j ] ]

RECURSIVE PushAll(_, _, _, _, _)
PushAll(drafts, cache, k, t, rs) ==
    IF k > Len(cache) THEN drafts
    ELSE PushAll(Append(drafts, [ cache[k] EXCEPT
                                    !.id = RandomId(t, rs[k]),
                                    !.obj = NewObject(drafts) ]),
                 cache, k + 1, t, rs)

bulkApproveScrapedEvents(confirmed, t, rs) ==
    /\ t >= now
    /\ IF Len(scrapedEventsCache) = 0
       THEN /\ lastAlert' = "No events to approve"
            /\ UNCHANGED << userSubmittedEvents, store, scrapedEventsCache, now >>
       ELSE IF ~confirmed
       THEN /\ lastAlert' = NoAlert
            /\ UNCHANGED << userSubmittedEvents, store, scrapedEventsCache, now >>
       ELSE /\ Len(userSubmittedEvents) + Len(scrapedEventsCache) <= MaxDrafts
            /\ userSubmittedEvents' =
                   PushAll(userSubmittedEvents, scrapedEventsCache, 1, t, rs)
            /\ store' = saveStateToLocalStorage(userSubmittedEvents', reviews)
            /\ scrapedEventsCache' = << >>
            /\ now' = t
            /\ lastAlert' = "Successfully added ${count} event(s) to pending events!"
    /\ scenario' = Idle
    /\ deletedIds' = Assignable(deletedIds, now')
    /\ UNCHANGED << savedEvents, isAdmin >>
    /\ UNCHANGED << events, reviews, currentEventId, stars, reviewText >>

----------------------------------------------------------------------------
(* Review form.  A text is a sequence of characters.                       *)

WhiteSpace == { " ", "\t", "\n" }

RECURSIVE TrimStart(_)
TrimStart(text) ==
    IF text # << >> /\ Head(text) \in WhiteSpace THEN TrimStart(Tail(text)) ELSE text

RECURSIVE TrimEnd(_)
TrimEnd(text) ==
    IF text # << >> /\ text[Len(text)] \in WhiteSpace
    THEN TrimEnd(SubSeq(text, 1, Len(text) - 1))
    ELSE text

Trim(text) == TrimEnd(TrimStart(text))

FindReview(eventId) ==
    IF \E i \in 1..Len(reviews) : reviews[i].eventId = eventId
    THEN CHOOSE i \in 1..Len(reviews) :
            /\ reviews[i].eventId = eventId
            /\ \A j \in 1..(i - 1) : reviews[j].eventId # eventId
    ELSE 0

showEventDetails(eventId) ==
    /\ FindIndex(events, eventId) # 0
    /\ currentEventId' = eventId
    /\ lastAlert' = NoAlert
    /\ scenario' = Idle
    /\ UNCHANGED << savedEvents, isAdmin >>
    /\ UNCHANGED << userSubmittedEvents, events, reviews, scrapedEventsCache, stars,
                    reviewText, store, now, deletedIds >>

openReviewForm(eventId) ==
    LET i == FindReview(eventId) IN
    /\ currentEventId' = eventId
    /\ reviewText' = IF i # 0 THEN reviews[i].text ELSE << >>
    /\ stars' = IF i # 0 THEN reviews[i].rating ELSE 0
    /\ lastAlert' = NoAlert
    /\ scenario' = Idle
    /\ UNCHANGED << savedEvents, isAdmin >>
    /\ UNCHANGED << userSubmittedEvents, events, reviews, scrapedEventsCache, store,
                    now, deletedIds >>

handleStarRating(rating) ==
    /\ currentEventId # Null
    /\ stars' = rating
    /\ lastAlert' = NoAlert
    /\ scenario' = Idle
    /\ UNCHANGED << savedEvents, isAdmin >>
    /\ UNCHANGED << userSubmittedEvents, events, reviews, currentEventId,
                    scrapedEventsCache, reviewText, store, now, deletedIds >>

(* The user edits the #reviewText field *)
inputReviewText(text) ==
    /\ currentEventId # Null
    /\ reviewText' = text
    /\ lastAlert' = NoAlert
    /\ scenario' = Idle
    /\ UNCHANGED << savedEvents, isAdmin >>
    /\ UNCHANGED << userSubmittedEvents, events, reviews, currentEventId,
                    scrapedEventsCache, stars, store, now, deletedIds >>

(* document.getElementById('reviewText').value.trim() *)
ReviewTextValue_Untrimmed(value) == value

ReviewTextValue(value) == Trim(value)

(* if (reviewIndex >= 0) reviews[reviewIndex] = review; else reviews.push(review) *)
ReviewsAfterSubmit_AlwaysPush(revs, reviewIndex, review) == Append(revs, review)

ReviewsAfterSubmit(revs, reviewIndex, review) ==
    IF reviewIndex # 0
    THEN [ revs EXCEPT ![reviewIndex] = review ]
    ELSE Append(revs, review)

handleReviewSubmit(t) ==
    LET rating == stars
        text == ReviewTextValue(reviewText)
        reviewIndex == FindReview(currentEventId)
        review == [ eventId |-> currentEventId, rating |-> rating, text |-> text,
                    date |-> t ]
    IN
    /\ currentEventId # Null
    /\ t >= now
    /\ IF rating = 0
       THEN /\ lastAlert' = "Please select a rating"
            /\ UNCHANGED << reviews, store, now >>
       ELSE IF Len(text) < MinReviewLength
       THEN /\ lastAlert' = "Please write at least 10 characters in your review"
            /\ UNCHANGED << reviews, store, now >>
       ELSE /\ reviews' = ReviewsAfterSubmit(reviews, reviewIndex, review)
            /\ store' = saveStateToLocalStorage(userSubmittedEvents, reviews')
            /\ now' = t
            /\ lastAlert' = NoAlert
    /\ scenario' = Idle
    /\ deletedIds' = Assignable(deletedIds, now')
    /\ UNCHANGED << savedEvents, isAdmin >>
    /\ UNCHANGED << userSubmittedEvents, events, currentEventId, scrapedEventsCache,
                    stars, reviewText >>

----------------------------------------------------------------------------
(* Saved events, the administrator's session and the reviews screen *)

toggleSaveEvent(eventId) ==
    /\ savedEvents' = IF eventId \in savedEvents
                       THEN savedEvents \ { eventId }
                       ELSE savedEvents \cup { eventId }
    /\ store' = StoredState(userSubmittedEvents, savedEvents', reviews, isAdmin)
    /\ lastAlert' = NoAlert
    /\ scenario' = Idle
    /\ UNCHANGED << userSubmittedEvents, isAdmin, events, reviews, currentEventId,
                    scrapedEventsCache, stars, reviewText, now, deletedIds >>

(* The save button of a card: parseInt(btn.dataset.eventId) *)
clickSaveButton(cardId) == toggleSaveEvent(ParseInt(cardId))

(* displaySavedEvents: the events the Saved tab lists *)
SavedEventsList == SelectSeq(events, LAMBDA e : e.id \in savedEvents)

adminPassword == "admin123"

(* prompt() returns the text typed, or null when it is cancelled *)
promptAdminLogin(password) ==
    /\ IF password = adminPassword
       THEN /\ isAdmin' = TRUE
            /\ store' = StoredState(userSubmittedEvents, savedEvents, reviews, TRUE)
            /\ lastAlert' = "Successfully logged in as administrator"
       ELSE /\ lastAlert' = IF password # "null" THEN "Incorrect password" ELSE NoAlert
            /\ UNCHANGED << isAdmin, store >>
    /\ scenario' = Idle
    /\ UNCHANGED << userSubmittedEvents, savedEvents, events, reviews,
                    currentEventId, scrapedEventsCache, stars, reviewText, now,
                    deletedIds >>

adminLogout ==
    /\ isAdmin' = FALSE
    /\ store' = StoredState(userSubmittedEvents, savedEvents, reviews, FALSE)
    /\ lastAlert' = "Logged out successfully"
    /\ scenario' = Idle
    /\ UNCHANGED << userSubmittedEvents, savedEvents, events, reviews,
                    currentEventId, scrapedEventsCache, stars, reviewText, now,
                    deletedIds >>

(* AppState.reviews.sort((a, b) => new Date(b.date) - new Date(a.date)):   *)
(* the sort is in place                                                    *)
SortedReviews(revs) ==
    StableSort(revs, [ i \in 1..Len(revs) |-> 0 - revs[i].date ])

(* The reviews tab.  The rendering of a review whose event find() does not *)
(* return throws, after the sort.                                          *)
displayReviews ==
    /\ reviews' = SortedReviews(reviews)
    /\ lastAlert' = NoAlert
    /\ scenario' = Idle
    /\ UNCHANGED << userSubmittedEvents, savedEvents, isAdmin, events,
                    currentEventId, scrapedEventsCache, stars, reviewText, store,
                    now, deletedIds >>

----------------------------------------------------------------------------
(* Inputs *)

Repeat(c, n) == [ k \in 1..n |-> c ]

ReviewTexts ==
    { << >>,
      Repeat(" ", MinReviewLength + 1),
      Repeat("a", MinReviewLength - 1),
      << " ", "\n" >> \o Repeat("a", MinReviewLength - 1) \o << "\t" >>,
      Repeat("a", MinReviewLength),
      << " " >> \o Repeat("b", MinReviewLength) \o << " " >> }

FormPrices == { NaN, 0 - 5, 0, 20, 21, 51 }

ModerationPrices == { 25 }

EditPrices == { NaN, 0 - 5, 0, 50, 51 }

Element(priceText) == [ priceText |-> priceText, description |-> 0 ]

ModerationDescriptions == { MaxDescription }

ModerationDocs ==
    { Document(<< Block(TRUE,
                        << Described(Item("Event", "25", DateOnly(0)), d),
                           Described(Item("Event", "25", NoStartDate), d) >>) >>,
               << >>) : d \in ModerationDescriptions }

IngestDocs ==
    { Document(<< Block(TRUE, << Item("Event", "-5", DateOnly(1)) >>) >>, << >>),
      Document(<< Block(TRUE, << Item("MusicEvent", "21", NoStartDate),
                                 Item("Event", "abc", DateOnly(1)) >>) >>, << >>),
      Document(<< Block(FALSE, << >>),
                  Block(TRUE, << Item("Person", "50", NoStartDate),
                                 Item("Event", "50", NoStartDate),
                                 Item("number", "51", NoStartDate),
                                 Item("Event", "51", NoStartDate) >>) >>, << >>),
      Document(<< Block(TRUE, << Item("Event", "empty", DateOnly(1)),
                                 Item("Event", "20", InvalidStartDate),
                                 Item("Event", "51", DateOnly(1)) >>) >>,
               << Element("$25") >>),
      Document(<< Block(TRUE, << Item("null", "25", DateOnly(1)) >>) >>,
               << Element("$51"), Element("-5") >>),
      Document(<< >>, << Element("Free"), Element("20") >>),
      Document(<< >>, << >>) }

(* A review can be edited a millisecond or more after it was written *)
ReviewTimes == Clock \cup { Len(EVENTS_DATA) + MaxNow + 1 }

UnknownId == DateNowId(Len(EVENTS_DATA) + MaxNow + 2)

ModerationIds ==
    IdsOf(userSubmittedEvents) \cup IdsOf(EVENTS_DATA) \cup deletedIds
        \cup { UnknownId }

(* The ids the cards, the modal and the review list hand to the handlers:  *)
(* a card passes parseInt of its data-event-id, the other buttons the id.  *)
ViewIds ==
    IdsOf(events) \cup { ParseInt(id) : id \in IdsOf(events) }
        \cup { reviews[i].eventId : i \in 1..Len(reviews) }

----------------------------------------------------------------------------
(* Specifications *)

Submit(prices, descriptions, times) ==
    \E t \in times, price \in prices, vibesChecked \in 0..1 :
        \E date \in { ExtractionDate(t) }, description \in descriptions :
            handleEventSubmission(t, price, date, description, vibesChecked)

Parse(venues, docs, times, fractions) ==
    \E venue \in venues, doc \in docs, t \in times :
        \E rs \in [ 1..DraftCount(doc) -> fractions ] :
            parseScrapedHtml(venue, doc, t, rs)

ApproveSingle(times) ==
    \E index \in 1..(Len(scrapedEventsCache) + 1), t \in times, r \in Fractions :
        approveSingleScrapedEvent(index, t, r)

BulkApprove(times) ==
    \E confirmed \in BOOLEAN, t \in times :
        \E rs \in Randoms(Len(scrapedEventsCache)) :
            bulkApproveScrapedEvents(confirmed, t, rs)

Remove ==
    \E index \in 1..(Len(scrapedEventsCache) + 1) : removeScrapedEvent(index)

Next ==
    \/ Submit(ModerationPrices, ModerationDescriptions, Clock)
          /\ UNCHANGED callVars
    \/ \E eventId \in ModerationIds : approveEvent(eventId)
          /\ UNCHANGED callVars
    \/ \E eventId \in ModerationIds : rejectEvent(eventId)
          /\ UNCHANGED callVars
    \/ \E eventId \in ModerationIds, confirmed \in BOOLEAN :
          deleteEvent(eventId, confirmed)
          /\ UNCHANGED callVars
    \/ Parse({ "Will's Pub" }, ModerationDocs, { now }, { 0 })
          /\ UNCHANGED callVars
    \/ ApproveSingle(Clock)
          /\ UNCHANGED callVars
    \/ BulkApprove(Clock)
          /\ UNCHANGED callVars
    \/ loadStateFromLocalStorage
          /\ UNCHANGED callVars

Spec == Init /\ [][Next]_vars

NextIngest ==
    \/ Submit(FormPrices, ModerationDescriptions, { now })
          /\ UNCHANGED callVars
    \/ Parse({ "", "Will's Pub" }, IngestDocs, { now }, { 0 })
          /\ UNCHANGED callVars
    \/ \E index \in 1..Len(scrapedEventsCache), value \in EditPrices :
          updateScrapedEvent(index, "price", value)
          /\ UNCHANGED callVars
    \/ Remove
          /\ UNCHANGED callVars

SpecIngest == Init /\ [][NextIngest]_vars

NextReview ==
    \/ \E eventId \in ViewIds : showEventDetails(eventId)
          /\ UNCHANGED callVars
    \/ \E eventId \in ViewIds : openReviewForm(eventId)
          /\ UNCHANGED callVars
    \/ \E rating \in 1..MaxStars : handleStarRating(rating)
          /\ UNCHANGED callVars
    \/ \E text \in ReviewTexts : inputReviewText(text)
          /\ UNCHANGED callVars
    \/ \E t \in ReviewTimes : handleReviewSubmit(t)
          /\ UNCHANGED callVars
    \/ loadStateFromLocalStorage
          /\ UNCHANGED callVars

SpecReview == Init /\ [][NextReview]_vars

(* A session of a visitor who is also the administrator: submission,       *)
(* moderation, saving, reviewing and the reviews tab                       *)

SessionTexts == { Repeat("a", MinReviewLength) }

SessionRatings == { MaxStars }

Passwords == { adminPassword, "guess", "null" }

(* The cards the visitor opens: the first curated event's and those of    *)
(* the community events                                                    *)
SessionCards ==
    { EVENTS_DATA[1].id } \cup (IdsOf(events) \cap IdsOf(userSubmittedEvents))

(* The community events of a session *)
SessionDrafts == 1

NextSession ==
    \/ Len(userSubmittedEvents) < SessionDrafts
          /\ Submit(ModerationPrices, ModerationDescriptions, { now })
          /\ UNCHANGED callVars
    \/ \E eventId \in IdsOf(userSubmittedEvents) : approveEvent(eventId)
          /\ UNCHANGED callVars
    \/ \E eventId \in IdsOf(userSubmittedEvents) : rejectEvent(eventId)
          /\ UNCHANGED callVars
    \/ \E eventId \in IdsOf(userSubmittedEvents), confirmed \in BOOLEAN :
          deleteEvent(eventId, confirmed)
          /\ UNCHANGED callVars
    \/ \E cardId \in SessionCards : showEventDetails(ParseInt(cardId))
          /\ UNCHANGED callVars
    \/ currentEventId # Null /\ openReviewForm(currentEventId)
          /\ UNCHANGED callVars
    \/ \E rating \in SessionRatings : handleStarRating(rating)
          /\ UNCHANGED callVars
    \/ \E text \in SessionTexts : inputReviewText(text)
          /\ UNCHANGED callVars
    \/ \E t \in ReviewTimes : handleReviewSubmit(t)
          /\ UNCHANGED callVars
    \/ currentEventId # Null /\ toggleSaveEvent(currentEventId)
          /\ UNCHANGED callVars
    \/ \E password \in Passwords : promptAdminLogin(password)
          /\ UNCHANGED callVars
    \/ adminLogout
          /\ UNCHANGED callVars
    \/ displayReviews
          /\ UNCHANGED callVars
    \/ loadStateFromLocalStorage
          /\ UNCHANGED callVars

SpecSession == Init /\ [][NextSession]_vars

(* The scrape preview queue from extraction to the list of drafts *)

(* The fields of a card of the preview, each with a value typed into it *)
QueueEdits ==
    { [ field |-> "venue", value |-> 0 ],
      [ field |-> "date", value |-> ExtractionDate(now) ],
      [ field |-> "time", value |-> 0 ],
      [ field |-> "price", value |-> 0 ],
      [ field |-> "category", value |-> 0 ],
      [ field |-> "description", value |-> MaxDescription + 1 ],
      [ field |-> "externalLink", value |-> 0 ] }

(* An Event of price 25 whose description is one character too long, and   *)
(* an element of the same price and description                           *)
LongEvent == Described(Item("Event", "25", NoStartDate), MaxDescription + 1)

LongElement == Described(Element("$25"), MaxDescription + 1)

QueueDocs ==
    { Document(<< Block(FALSE, << >>), Block(TRUE, << LongEvent >>) >>, << >>),
      Document(<< Block(TRUE, << Item("number", "25", NoStartDate) >>),
                  Block(TRUE, << Item("null", "25", NoStartDate) >>),
                  Block(TRUE, << Item("Event", "25", InvalidStartDate) >>),
                  Block(TRUE, << Item("Event", "empty", NoStartDate) >>),
                  Block(TRUE, << Described(Item("Event", "25", NoStartDate),
                                           NotAString) >>),
                  Block(TRUE, << LongEvent >>) >>,
               << LongElement >>),
      Document(<< Block(TRUE, << LongEvent,
                                 Item("number", "25", NoStartDate),
                                 LongEvent >>) >>, << >>),
      Document(<< Block(FALSE, << >>),
                  Block(TRUE, << Item("Event", "25", InvalidStartDate),
                                 Described(Item("Event", "25", NoStartDate),
                                           NotAString) >>) >>, << >>),
      Document(<< Block(TRUE, << Item("Person", "25", NoStartDate) >>) >>,
               << LongElement, LongElement >>),
      Document(<< >>, << >>) }

NextQueue ==
    \/ Submit(ModerationPrices, ModerationDescriptions, { now })
          /\ UNCHANGED callVars
    \/ Parse({ "", "Will's Pub" }, QueueDocs, { now }, { 0 })
          /\ UNCHANGED callVars
    \/ \E index \in 1..Len(scrapedEventsCache), edit \in QueueEdits :
          updateScrapedEvent(index, edit.field, edit.value)
          /\ UNCHANGED callVars
    \/ Remove
          /\ UNCHANGED callVars
    \/ ApproveSingle({ now })
          /\ UNCHANGED callVars
    \/ BulkApprove({ now })
          /\ UNCHANGED callVars

SpecQueue == Init /\ [][NextQueue]_vars

----------------------------------------------------------------------------
(* Properties of the moderation workflow *)

InView(draft) == \E k \in 1..Len(events) : events[k].obj = draft.obj

(* C1: a draft of userSubmittedEvents is in the public view exactly when   *)
(* its status is approved, and the view holds no pending or rejected       *)
(* event.                                                                  *)
C1_ApprovedIffInView ==
    /\ \A i \in 1..Len(userSubmittedEvents) :
          InView(userSubmittedEvents[i]) <=> userSubmittedEvents[i].status = "approved"
    /\ \A k \in 1..Len(events) : events[k].status \notin { "pending", "rejected" }

C1_Witness ==
    \E i, j \in 1..Len(userSubmittedEvents) :
        /\ userSubmittedEvents[i].status = "approved"
        /\ InView(userSubmittedEvents[i])
        /\ userSubmittedEvents[j].status = "rejected"
        /\ ~InView(userSubmittedEvents[j])
        /\ userSubmittedEvents[j].id # ParseInt(userSubmittedEvents[j].id)

(* C2: approving an approved draft again adds nothing to the view, so no   *)
(* event id occurs twice in the public view.                               *)
C2_NoDuplicateInView ==
    \A k, l \in 1..Len(events) : events[k].id = events[l].id => k = l

(* C3: for a pending draft X, after approveEvent(X) the id of X is in the  *)
(* view; after rejectEvent(X) next it is not; after approveEvent(X) next   *)
(* it is there exactly once.                                               *)
C3_ApproveRejectApprove ==
    /\ scenario.step = 1 => CountId(events, scenario.id) >= 1
    /\ scenario.step = 2 => CountId(events, scenario.id) = 0
    /\ scenario.step = 3 => CountId(events, scenario.id) = 1

C3_Witness == scenario.step = 3 /\ CountId(events, scenario.id) = 1

SuccessMessages ==
    { "Event approved successfully!", "Event rejected successfully!",
      "Event deleted successfully!" }

(* C5: approveEvent, rejectEvent and deleteEvent on an id that matches no  *)
(* draft change no state and report no success.                            *)
C5_UnknownIdIsNoOp ==
    [][ \A eventId \in ModerationIds :
          ( /\ eventId \notin IdsOf(userSubmittedEvents)
            /\ \/ approveEvent(eventId)
               \/ rejectEvent(eventId)
               \/ \E confirmed \in BOOLEAN : deleteEvent(eventId, confirmed) )
            => /\ UNCHANGED << userSubmittedEvents, events, reviews, store >>
               /\ lastAlert' \notin SuccessMessages ]_vars

(* C6: every curated event of EVENTS_DATA is in the public view, unaltered *)
C6_CuratedStayInView ==
    \A c \in 1..Len(EVENTS_DATA) :
        \E k \in 1..Len(events) : events[k] = EVENTS_DATA[c]

C6_Witness ==
    /\ lastAlert = "Event rejected successfully!"
    /\ Len(events) = Len(EVENTS_DATA)
    /\ \E i \in 1..Len(userSubmittedEvents) :
          userSubmittedEvents[i].status = "rejected"
    /\ \E i \in 1..Len(userSubmittedEvents) :
          userSubmittedEvents[i].status = "pending"

(* C8: no two events among EVENTS_DATA and userSubmittedEvents share an    *)
(* id, and no draft has an id that deleteEvent removed.                    *)
C8_IdsUnique ==
    LET all == EVENTS_DATA \o userSubmittedEvents IN
    /\ \A k, l \in 1..Len(all) : all[k].id = all[l].id => k = l
    /\ IdsOf(userSubmittedEvents) \cap deletedIds = {}

----------------------------------------------------------------------------
(* Properties of prices *)

(* The thresholds of the data model: free at 0, budget up to 20, moderate  *)
(* up to 50, premium otherwise                                             *)
ThresholdCategory(price) ==
    IF price = 0 THEN "free"
    ELSE IF price # NaN /\ price <= 20 THEN "budget"
    ELSE IF price # NaN /\ price <= 50 THEN "moderate"
    ELSE "premium"

(* C7: every event created by the form or by either extraction strategy,   *)
(* and every event of the scrape preview after an edit of its price, has   *)
(* the priceCategory the thresholds give for its price.                    *)
C7_PriceCategoryFollowsPrice ==
    /\ \A i \in 1..Len(userSubmittedEvents) :
          userSubmittedEvents[i].priceCategory =
              ThresholdCategory(userSubmittedEvents[i].price)
    /\ \A i \in 1..Len(scrapedEventsCache) :
          scrapedEventsCache[i].priceCategory =
              ThresholdCategory(scrapedEventsCache[i].price)

----------------------------------------------------------------------------
(* Properties of the review form *)

ReviewAccepted ==
    stars # 0 /\ Len(ReviewTextValue(reviewText)) >= MinReviewLength

(* C9: AppState.reviews holds at most one review per eventId; a submission *)
(* for an event that has a review replaces it at the same index with the   *)
(* new rating, text and timestamp, and the list does not grow.             *)
C9_OneReviewPerEvent ==
    /\ [](\A i, j \in 1..Len(reviews) :
            reviews[i].eventId = reviews[j].eventId => i = j)
    /\ [][ \A t \in ReviewTimes :
             ( /\ handleReviewSubmit(t)
               /\ ReviewAccepted
               /\ FindReview(currentEventId) # 0 )
               => /\ Len(reviews') = Len(reviews)
                  /\ \A i \in 1..Len(reviews) :
                        reviews'[i] =
                          IF i = FindReview(currentEventId)
                          THEN [ eventId |-> currentEventId, rating |-> stars,
                                 text |-> Trim(reviewText), date |-> t ]
                          ELSE reviews[i] ]_vars

C9_Witness ==
    /\ Len(reviews) = 2
    /\ reviews[1].date > reviews[2].date
    /\ reviews[1].rating # reviews[2].rating
    /\ reviews[1].text # reviews[2].text

ReviewWellFormed(review) ==
    /\ review.rating \in 1..5
    /\ Len(review.text) >= 10
    /\ review.text = Trim(review.text)

(* C10: a submission with no star selected, or with fewer than 10          *)
(* characters of text after trimming, is rejected with a message and       *)
(* changes neither AppState.reviews nor the store; every review in         *)
(* AppState.reviews and in the store has a rating in 1..5 and a trimmed    *)
(* text of at least 10 characters.                                         *)
C10_InvalidReviewRejected ==
    /\ [](/\ \A i \in 1..Len(reviews) : ReviewWellFormed(reviews[i])
          /\ \A i \in 1..Len(store.reviews) : ReviewWellFormed(store.reviews[i]))
    /\ [][ \A t \in ReviewTimes :
             ( /\ handleReviewSubmit(t)
               /\ stars = 0 \/ Len(Trim(reviewText)) < 10 )
               => /\ UNCHANGED << reviews, store >>
                  /\ lastAlert' \in
                       { "Please select a rating",
                         "Please write at least 10 characters in your review" } ]_vars

C10_Witness ==
    /\ lastAlert = "Please write at least 10 characters in your review"
    /\ Len(reviewText) >= 10
    /\ stars # 0
    /\ reviews # << >>
    /\ store.reviews = reviews

----------------------------------------------------------------------------
(* Scores.  An instant is counted in hours since the epoch; a date         *)
(* YYYY-MM-DD is the number of its day and new Date(date) is the instant   *)
(* of that day's midnight in UTC.  A date text that does not parse is     *)
(* Unparseable and gives the Invalid Date, whose time is NaN.              *)

(* new Date(event.date) *)
NewDate(date) == IF date = Unparseable THEN NaN ELSE date * HoursPerDay

(* Math.floor((eventDate - now) / (1000 * 60 * 60 * 24)) *)
DaysUntilEvent_InvalidIsToday(date, instant) ==
    IF NewDate(date) = NaN THEN 0
    ELSE (NewDate(date) - instant) \div HoursPerDay

DaysUntilEvent(date, instant) ==
    IF NewDate(date) = NaN THEN NaN
    ELSE (NewDate(date) - instant) \div HoursPerDay

(* Boost recent events *)
RecencyBoost_Linear(daysUntilEvent) ==
    IF daysUntilEvent = NaN THEN NaN ELSE 30 - daysUntilEvent

RecencyBoost(daysUntilEvent) ==
    IF daysUntilEvent # NaN /\ daysUntilEvent >= 0 /\ daysUntilEvent <= 7 THEN 20
    ELSE IF daysUntilEvent # NaN /\ daysUntilEvent > 7 /\ daysUntilEvent <= 30 THEN 10
    ELSE 0

calculateEventScore(event, instant) ==
    Min(100, 50 + (IF event.userSubmitted THEN 10 ELSE 0)
                + RecencyBoost(DaysUntilEvent(event.date, instant))
                + (IF event.priceCategory = "free" THEN 5 ELSE 0))

----------------------------------------------------------------------------
(* Recommendations after a review.  The events of this part carry, next    *)
(* to id, price, priceCategory and userSubmitted, their category, vibes    *)
(* (a set), capacity, interactivity, time and date.                        *)

Undefined == [ id |-> Null ]

(* AppState.events.find(e => e.id === AppState.currentEventId) *)
Find(view, eventId) ==
    IF FindIndex(view, eventId) = 0 THEN Undefined
    ELSE view[FindIndex(view, eventId)]

Take(seq, n) == SubSeq(seq, 1, Min(n, Len(seq)))

calculateSimilarity_AnySharedVibe(event1, event2) ==
      (IF event1.category = event2.category THEN 20 ELSE 0)
    + (IF event1.vibes \cap event2.vibes # {} THEN 10 ELSE 0)
    + (IF event1.priceCategory = event2.priceCategory THEN 15 ELSE 0)
    + (IF event1.time = event2.time THEN 10 ELSE 0)
    + (IF event1.interactivity = event2.interactivity THEN 10 ELSE 0)

calculateSimilarity(event1, event2) ==
      (IF event1.category = event2.category THEN 20 ELSE 0)
    + Cardinality(event1.vibes \cap event2.vibes) * 10
    + (IF event1.priceCategory = event2.priceCategory THEN 15 ELSE 0)
    + (IF event1.time = event2.time THEN 10 ELSE 0)
    + (IF event1.interactivity = event2.interactivity THEN 10 ELSE 0)

(* .filter(e => e.id !== AppState.currentEventId) *)
Others_KeepReviewed(view, eventId) == view

Others(view, eventId) == SelectSeq(view, LAMBDA e : e.id # eventId)

(* e.category === currentEvent.category ||                                 *)
(*     e.vibes.some(v => currentEvent.vibes.includes(v))                   *)
Related_Any(e, currentEvent) == TRUE

Related(e, currentEvent) ==
    e.category = currentEvent.category \/ e.vibes \cap currentEvent.vibes # {}

Recommendation(event, reason, badge) ==
    [ event |-> event, reason |-> reason, badges |-> << badge >> ]

Recommend(candidates, reason, badge) ==
    [ k \in 1..Len(candidates) |-> Recommendation(candidates[k], reason, badge) ]

(* Each rule gives its candidates.  A rule that reads a property of a      *)
(* current event that find() did not return throws a TypeError, which      *)
(* ReadsUndefined tells; the rule's candidates are then of no account.     *)

(* rating >= 4: the three most similar other events *)
SimilarEvents(view, eventId, rating) ==
    LET currentEvent == Find(view, eventId)
        others == Others(view, eventId)
        Nearness(e) == 0 - calculateSimilarity(currentEvent, e)
    IN  IF rating < 4 \/ others = << >> THEN << >>
        ELSE IF currentEvent = Undefined THEN << >>
        ELSE Recommend(Take(StableSort(others,
                                [ i \in 1..Len(others) |-> Nearness(others[i]) ]), 3),
                       "Since you enjoyed ${currentEvent.name}, you might love this similar ${event.category} experience!",
                       "similar")

(* concern price: the two cheapest free or budget events that are related *)
BudgetEvents(view, eventId, concerns) ==
    LET currentEvent == Find(view, eventId)
        cheap == SelectSeq(Others(view, eventId),
                           LAMBDA e : e.priceCategory \in { "free", "budget" })
        related == SelectSeq(cheap, LAMBDA e : Related(e, currentEvent))
        Price(e) == e.price
    IN  IF "price" \notin concerns \/ cheap = << >> THEN << >>
        ELSE IF currentEvent = Undefined THEN << >>
        ELSE Recommend(Take(StableSort(related,
                                [ i \in 1..Len(related) |-> Price(related[i]) ]), 2),
                       "We noticed price was a concern. This ${event.category} event is ${priceText} and offers a similar vibe without breaking the bank!",
                       "budget-friendly")

(* concern crowd: the two best scored small events that are related *)
IntimateEvents(view, eventId, concerns, instant) ==
    LET currentEvent == Find(view, eventId)
        small == SelectSeq(Others(view, eventId), LAMBDA e : e.capacity = "small")
        related == SelectSeq(small, LAMBDA e : Related(e, currentEvent))
        Rank(e) == 0 - calculateEventScore(e, instant)
    IN  IF "crowd" \notin concerns \/ small = << >> THEN << >>
        ELSE IF currentEvent = Undefined THEN << >>
        ELSE Recommend(Take(StableSort(related,
                                [ i \in 1..Len(related) |-> Rank(related[i]) ]), 2),
                       "Looking for something more intimate? This small-capacity event offers a peaceful, uncrowded experience where you can really enjoy the atmosphere.",
                       "intimate")

(* concern boring: the two best scored events of high interactivity *)
InteractiveEvents(view, eventId, concerns, instant) ==
    LET lively == SelectSeq(Others(view, eventId),
                            LAMBDA e : e.interactivity = "high")
        Rank(e) == 0 - calculateEventScore(e, instant)
    IN  IF "boring" \notin concerns THEN << >>
        ELSE Recommend(Take(StableSort(lively,
                                [ i \in 1..Len(lively) |-> Rank(lively[i]) ]), 2),
                       "Want more engagement? This highly interactive event lets you participate actively rather than just observe. Get ready for hands-on fun!",
                       "interactive")

(* rating <= 2 and no concern: the two best scored events of another       *)
(* category                                                                *)
DifferentCategory_UpToThree(view, eventId, rating, concerns, instant) ==
    LET currentEvent == Find(view, eventId)
        others == Others(view, eventId)
        different == SelectSeq(others, LAMBDA e : e.category # currentEvent.category)
        Rank(e) == 0 - calculateEventScore(e, instant)
    IN  IF rating > 3 \/ concerns # {} \/ others = << >> THEN << >>
        ELSE IF currentEvent = Undefined THEN << >>
        ELSE Recommend(Take(StableSort(different,
                                [ i \in 1..Len(different) |-> Rank(different[i]) ]), 2),
                       "Sometimes a change of pace is exactly what you need! This ${event.category} event offers a completely different vibe.",
                       "fresh-perspective")

DifferentCategory(view, eventId, rating, concerns, instant) ==
    LET currentEvent == Find(view, eventId)
        others == Others(view, eventId)
        different == SelectSeq(others, LAMBDA e : e.category # currentEvent.category)
        Rank(e) == 0 - calculateEventScore(e, instant)
    IN  IF rating > 2 \/ concerns # {} \/ others = << >> THEN << >>
        ELSE IF currentEvent = Undefined THEN << >>
        ELSE Recommend(Take(StableSort(different,
                                [ i \in 1..Len(different) |-> Rank(different[i]) ]), 2),
                       "Sometimes a change of pace is exactly what you need! This ${event.category} event offers a completely different vibe.",
                       "fresh-perspective")

ReadsUndefined(view, eventId, rating, concerns) ==
    /\ Find(view, eventId) = Undefined
    /\ \/ rating >= 4 /\ Others(view, eventId) # << >>
       \/ /\ "price" \in concerns
          /\ \E k \in 1..Len(view) : view[k].priceCategory \in { "free", "budget" }
       \/ /\ "crowd" \in concerns
          /\ \E k \in 1..Len(view) : view[k].capacity = "small"
       \/ rating <= 2 /\ concerns = {} /\ Others(view, eventId) # << >>

(* Remove duplicates: the first recommendation of each event id is kept *)
RECURSIVE UniqueRecommendations_KeepLast(_)
UniqueRecommendations_KeepLast(recommendations) ==
    IF recommendations = << >> THEN << >>
    ELSE LET n == Len(recommendations)
             front == SubSeq(recommendations, 1, n - 1)
             rec == recommendations[n]
         IN  UniqueRecommendations_KeepLast(
                 SelectSeq(front, LAMBDA r : r.event.id # rec.event.id))
             \o << rec >>

RECURSIVE UniqueRecommendations(_)
UniqueRecommendations(recommendations) ==
    IF recommendations = << >> THEN << >>
    ELSE << Head(recommendations) >>
         \o UniqueRecommendations(
                SelectSeq(Tail(recommendations),
                          LAMBDA r : r.event.id # Head(recommendations).event.id))

RulesInOrder(view, eventId, sentiment, rating, instant) ==
       SimilarEvents(view, eventId, rating)
    \o BudgetEvents(view, eventId, sentiment.concerns)
    \o IntimateEvents(view, eventId, sentiment.concerns, instant)
    \o InteractiveEvents(view, eventId, sentiment.concerns, instant)
    \o DifferentCategory(view, eventId, rating, sentiment.concerns, instant)

generateContextualRecommendations(view, eventId, sentiment, rating, instant) ==
    IF ReadsUndefined(view, eventId, rating, sentiment.concerns)
    THEN [ op |-> "generateContextualRecommendations", threw |-> TRUE ]
    ELSE [ op |-> "generateContextualRecommendations", threw |-> FALSE,
           value |-> Take(UniqueRecommendations(
                              RulesInOrder(view, eventId, sentiment, rating, instant)),
                          4) ]

(* Inputs: a catalogue in the shape of events-data.js and of the drafts    *)
ListedEvent(n, category, vibes, price, priceCategory, capacity, interactivity, time, date, userSubmitted) ==
    [ id |-> n * FracSteps, category |-> category, vibes |-> vibes,
      price |-> price, priceCategory |-> priceCategory, capacity |-> capacity,
      interactivity |-> interactivity, time |-> time, date |-> date,
      userSubmitted |-> userSubmitted ]

Today == 20000

Catalogue ==
    << ListedEvent(1, "music", { "energetic", "social" }, 25, "moderate",
                   "large", "medium", "evening", Today + 3, FALSE),
       ListedEvent(2, "music", { "energetic" }, 0, "free",
                   "small", "high", "evening", Today + 2, FALSE),
       ListedEvent(3, "food", { "social" }, 15, "budget",
                   "small", "high", "afternoon", Today + 20, FALSE),
       ListedEvent(4, "arts", { "creative" }, 60, "premium",
                   "large", "low", "morning", Unparseable, FALSE),
       ListedEvent(5, "music", { "relaxed" }, 10, "budget",
                   "medium", "high", "evening", Today + 1, FALSE),
       ListedEvent(6, "outdoor", { "energetic", "social" }, 0, "free",
                   "small", "medium", "evening", Today - 1, FALSE),
       ListedEvent(7, "sports", {}, 5, "budget",
                   "small", "high", "night", Today, TRUE) >>

Pick(indices) == [ k \in 1..Len(indices) |-> Catalogue[indices[k]] ]

Views ==
    { Catalogue,
      Pick(<< 7, 6, 5, 4, 3, 2, 1 >>),
      Pick(<< 1, 2, 2, 3, 1, 5, 6 >>),
      Pick(<< 3, 7, 7, 5, 6, 2, 4 >>),
      Pick(<< 1 >>),
      << >> }

Concerns == SUBSET { "price", "crowd", "boring" }

Instants == { Today * HoursPerDay, Today * HoursPerDay + 15 }

InitRecommend ==
    /\ userSubmittedEvents = << >>
    /\ savedEvents = {}
    /\ isAdmin = FALSE
    /\ events \in Views
    /\ reviews = << >>
    /\ currentEventId \in IdsOf(Catalogue)
    /\ scrapedEventsCache = << >>
    /\ stars = 0
    /\ reviewText = << >>
    /\ store = EmptyStore
    /\ now = Len(EVENTS_DATA) + 1
    /\ lastAlert = NoAlert
    /\ deletedIds = {}
    /\ scenario = Idle
    /\ hostZone = 0
    /\ args \in [ op : { "generateContextualRecommendations" },
                   sentiment : [ concerns : Concerns ],
                   rating : 1..MaxStars,
                   instant : Instants ]
    /\ returned = NoCall

CallRecommendations ==
    /\ args.op = "generateContextualRecommendations"
    /\ returned = NoCall
    /\ returned' = generateContextualRecommendations(
                       events, currentEventId, args.sentiment, args.rating,
                       args.instant)
    /\ UNCHANGED << savedEvents, isAdmin >>
    /\ UNCHANGED << userSubmittedEvents, events, reviews, currentEventId,
                    scrapedEventsCache, stars, reviewText, store, now, lastAlert,
                    deletedIds, scenario, hostZone, args >>

NextRecommend == CallRecommendations

SpecRecommend == InitRecommend /\ [][NextRecommend]_vars

----------------------------------------------------------------------------
(* Properties of the recommendations *)

Recommended ==
    returned.op = "generateContextualRecommendations" /\ ~returned.threw

(* C11: whatever the view holds (the same event twice included), whatever  *)
(* the rating and the concerns, the list generateContextualRecommendations *)
(* returns does not contain the reviewed event, contains no event id       *)
(* twice and has at most 4 entries.                                        *)
C11_RecommendationsSafe ==
    Recommended =>
        /\ \A k \in 1..Len(returned.value) :
              returned.value[k].event.id # currentEventId
        /\ \A j, k \in 1..Len(returned.value) :
              returned.value[j].event.id = returned.value[k].event.id => j = k
        /\ Len(returned.value) <= 4

C11_Witness ==
    /\ Recommended
    /\ Len(returned.value) = 4
    /\ \E j, k \in 1..Len(events) : j # k /\ events[j].id = events[k].id
    /\ \E k \in 1..Len(events) : events[k].id = currentEventId
    /\ Len(RulesInOrder(events, currentEventId, args.sentiment, args.rating,
                        args.instant)) > 4

BadgeOrder ==
    << "similar", "budget-friendly", "intimate", "interactive", "fresh-perspective" >>

RuleOf(rec) == CHOOSE n \in 1..Len(BadgeOrder) : BadgeOrder[n] = rec.badges[1]

Candidates ==
    RulesInOrder(events, currentEventId, args.sentiment, args.rating, args.instant)

FirstOf(id) ==
    CHOOSE i \in 1..Len(Candidates) :
        /\ Candidates[i].event.id = id
        /\ \A j \in 1..(i - 1) : Candidates[j].event.id # id

(* C12: the candidates of the rules are concatenated in the order similar, *)
(* price, crowd, boring, different category; the result keeps the first    *)
(* occurrence of every event id, in that order, and only the first 4: an   *)
(* event that is a candidate of rule 1 and of a later rule is returned     *)
(* once, with the badge similar and rule 1's reason.                       *)
C12_FirstRuleWins ==
    Recommended =>
        /\ \A i, j \in 1..Len(Candidates) :
              i < j => RuleOf(Candidates[i]) <= RuleOf(Candidates[j])
        /\ Len(returned.value) =
              Min(4, Cardinality({ Candidates[i].event.id : i \in 1..Len(Candidates) }))
        /\ \A k \in 1..Len(returned.value) :
              /\ returned.value[k] = Candidates[FirstOf(returned.value[k].event.id)]
              /\ \A i \in 1..(FirstOf(returned.value[k].event.id) - 1) :
                    \E j \in 1..(k - 1) :
                        returned.value[j].event.id = Candidates[i].event.id
        /\ \A k \in 1..Len(returned.value) :
              ( \E i \in 1..Len(Candidates) :
                    /\ Candidates[i].event.id = returned.value[k].event.id
                    /\ RuleOf(Candidates[i]) = 1 )
              => /\ returned.value[k].badges = << "similar" >>
                 /\ returned.value[k].reason =
                       "Since you enjoyed ${currentEvent.name}, you might love this similar ${event.category} experience!"

C12_Witness ==
    /\ Recommended
    /\ \E i, j \in 1..Len(Candidates) :
          /\ Candidates[i].event.id = Candidates[j].event.id
          /\ RuleOf(Candidates[i]) = 1
          /\ RuleOf(Candidates[j]) > 1
          /\ \E k \in 1..Len(returned.value) :
                /\ returned.value[k] = Candidates[i]
                /\ \A m \in 1..Len(returned.value) :
                      returned.value[m].event.id = Candidates[i].event.id => m = k
    /\ \E k \in 1..Len(returned.value) : RuleOf(returned.value[k]) > 1
    /\ Len(Candidates) > 4

----------------------------------------------------------------------------
(* Sentiment of a review text.  A text is the sequence of its characters.  *)

positiveWords ==
    << << "g", "r", "e", "a", "t" >>,
       << "a", "m", "a", "z", "i", "n", "g" >>,
       << "w", "o", "n", "d", "e", "r", "f", "u", "l" >>,
       << "f", "a", "n", "t", "a", "s", "t", "i", "c" >>,
       << "l", "o", "v", "e", "d" >>,
       << "a", "w", "e", "s", "o", "m", "e" >>,
       << "e", "x", "c", "e", "l", "l", "e", "n", "t" >>,
       << "p", "e", "r", "f", "e", "c", "t" >>,
       << "f", "u", "n" >>,
       << "e", "n", "j", "o", "y", "e", "d" >>,
       << "b", "e", "a", "u", "t", "i", "f", "u", "l" >>,
       << "i", "n", "c", "r", "e", "d", "i", "b", "l", "e" >> >>

negativeWords ==
    << << "b", "a", "d" >>,
       << "t", "e", "r", "r", "i", "b", "l", "e" >>,
       << "a", "w", "f", "u", "l" >>,
       << "h", "o", "r", "r", "i", "b", "l", "e" >>,
       << "d", "i", "s", "a", "p", "p", "o", "i", "n", "t", "i", "n", "g" >>,
       << "w", "o", "r", "s", "t" >>,
       << "h", "a", "t", "e" >>,
       << "b", "o", "r", "i", "n", "g" >>,
       << "w", "a", "s", "t", "e" >>,
       << "o", "v", "e", "r", "p", "r", "i", "c", "e", "d" >>,
       << "c", "r", "o", "w", "d", "e", "d" >>,
       << "l", "o", "u", "d" >> >>

priceComplaints ==
    << << "e", "x", "p", "e", "n", "s", "i", "v", "e" >>,
       << "o", "v", "e", "r", "p", "r", "i", "c", "e", "d" >>,
       << "c", "o", "s", "t", "l", "y" >>,
       << "p", "r", "i", "c", "e" >>,
       << "m", "o", "n", "e", "y" >>,
       << "b", "u", "d", "g", "e", "t" >>,
       << "a", "f", "f", "o", "r", "d" >>,
       << "c", "h", "e", "a", "p" >> >>

crowdComplaints ==
    << << "c", "r", "o", "w", "d", "e", "d" >>,
       << "p", "a", "c", "k", "e", "d" >>,
       << "b", "u", "s", "y" >>,
       << "p", "e", "o", "p", "l", "e" >>,
       << "c", "r", "o", "w", "d" >>,
       << "t", "o", "o", " ", "m", "a", "n", "y" >>,
       << "o", "v", "e", "r", "w", "h", "e", "l", "m", "i", "n", "g" >> >>

boringComplaints ==
    << << "b", "o", "r", "i", "n", "g" >>,
       << "d", "u", "l", "l" >>,
       << "u", "n", "i", "n", "t", "e", "r", "e", "s", "t", "i", "n", "g" >>,
       << "s", "l", "o", "w" >>,
       << "n", "o", "t", "h", "i", "n", "g" >>,
       << "b", "l", "a", "n", "d" >>,
       << "m", "o", "n", "o", "t", "o", "n", "o", "u", "s" >> >>

(* String.prototype.toLowerCase *)
LowerCase(c) ==
    CASE c = "A" -> "a"
         [] c = "B" -> "b"
         [] c = "C" -> "c"
         [] c = "D" -> "d"
         [] c = "E" -> "e"
         [] c = "F" -> "f"
         [] c = "G" -> "g"
         [] c = "H" -> "h"
         [] c = "I" -> "i"
         [] c = "J" -> "j"
         [] c = "K" -> "k"
         [] c = "L" -> "l"
         [] c = "M" -> "m"
         [] c = "N" -> "n"
         [] c = "O" -> "o"
         [] c = "P" -> "p"
         [] c = "Q" -> "q"
         [] c = "R" -> "r"
         [] c = "S" -> "s"
         [] c = "T" -> "t"
         [] c = "U" -> "u"
         [] c = "V" -> "v"
         [] c = "W" -> "w"
         [] c = "X" -> "x"
         [] c = "Y" -> "y"
         [] c = "Z" -> "z"
         [] OTHER -> c

ToLowerCase_AsTyped(text) == text

ToLowerCase(text) == [ i \in 1..Len(text) |-> LowerCase(text[i]) ]

(* The character U+017F, LATIN SMALL LETTER LONG S: toLowerCase leaves it  *)
(* as it is and toUpperCase gives "S"                                      *)
LongS == "U+017F"

Letters ==
    << "a", "b", "c", "d", "e", "f", "g", "h", "i", "j", "k", "l", "m",
       "n", "o", "p", "q", "r", "s", "t", "u", "v", "w", "x", "y", "z" >>

(* String.prototype.toUpperCase *)
UpperCase(c) ==
    IF c = LongS THEN "S"
    ELSE IF \E n \in 1..Len(Letters) : Letters[n] = c
    THEN LET n == CHOOSE n \in 1..Len(Letters) : Letters[n] = c
         IN  CHOOSE C \in { "A", "B", "C", "D", "E", "F", "G", "H", "I", "J", "K",
                            "L", "M", "N", "O", "P", "Q", "R", "S", "T", "U", "V",
                            "W", "X", "Y", "Z" } : LowerCase(C) = Letters[n]
    ELSE c

ToUpperCase(text) == [ i \in 1..Len(text) |-> UpperCase(text[i]) ]

(* String.prototype.includes *)
Includes(text, word) ==
    \E i \in 0..(Len(text) - Len(word)) : SubSeq(text, i + 1, i + Len(word)) = word

(* words.forEach(word => { if (lowerText.includes(word)) count++ }) *)
CountFound(lowerText, words) ==
    Cardinality({ k \in 1..Len(words) : Includes(lowerText, words[k]) })

(* words.some(word => lowerText.includes(word)) *)
SomeFound(lowerText, words) ==
    \E k \in 1..Len(words) : Includes(lowerText, words[k])

(* Determine overall sentiment *)
SentimentOf_NoMargin(positiveCount, negativeCount) ==
    IF positiveCount > negativeCount THEN "positive"
    ELSE IF negativeCount > positiveCount THEN "negative"
    ELSE "neutral"

SentimentOf_TieIsPositive(positiveCount, negativeCount) ==
    IF positiveCount + 1 > negativeCount THEN "positive"
    ELSE IF negativeCount > positiveCount THEN "negative"
    ELSE "neutral"

SentimentOf(positiveCount, negativeCount) ==
    IF positiveCount > negativeCount + 1 THEN "positive"
    ELSE IF negativeCount > positiveCount THEN "negative"
    ELSE "neutral"

analyzeSentiment(text) ==
    LET lowerText == ToLowerCase(text)
        positiveCount == CountFound(lowerText, positiveWords)
        negativeCount == CountFound(lowerText, negativeWords)
        concerns ==
            (IF SomeFound(lowerText, priceComplaints) THEN { "price" } ELSE {})
            \cup (IF SomeFound(lowerText, crowdComplaints) THEN { "crowd" } ELSE {})
            \cup (IF SomeFound(lowerText, boringComplaints) THEN { "boring" } ELSE {})
    IN  [ op |-> "analyzeSentiment", threw |-> FALSE,
          value |-> [ sentiment |-> SentimentOf(positiveCount, negativeCount),
                      concerns |-> concerns,
                      positiveCount |-> positiveCount,
                      negativeCount |-> negativeCount ] ]

(* Inputs: texts of up to three fragments *)
Fragments ==
    { << >>,
      << " " >>,
      << "\n", "\t", " " >>,
      << "G", "r", "e", "a", "t" >>,
      << " ", "f", "u", "n", " " >>,
      << "L", "O", "V", "E", "D" >>,
      << "b", "a", "d" >>,
      << " ", "a", "w", "f", "u", "l" >>,
      << "B", "o", "r", "i", "n", "g" >>,
      << "o", "v", "e", "r", "p", "r", "i", "c", "e", "d" >>,
      << "t", "o", "o", " ", " ", "m", "a", "n", "y" >>,
      << "P", "a", "c", "K", "e", "d" >>,
      << LongS, "l", "o", "w" >> }

SentimentTexts == { a \o b \o c : a \in Fragments, b \in Fragments, c \in Fragments }

InitSentiment ==
    /\ PageLoaded
    /\ hostZone = 0
    /\ args \in [ op : { "analyzeSentiment" }, text : SentimentTexts ]
    /\ returned = NoCall

CallSentiment ==
    /\ args.op = "analyzeSentiment"
    /\ returned = NoCall
    /\ returned' = analyzeSentiment(args.text)
    /\ UNCHANGED << savedEvents, isAdmin >>
    /\ UNCHANGED << userSubmittedEvents, events, reviews, currentEventId,
                    scrapedEventsCache, stars, reviewText, store, now, lastAlert,
                    deletedIds, scenario, hostZone, args >>

NextSentiment == CallSentiment

SpecSentiment == InitSentiment /\ [][NextSentiment]_vars

----------------------------------------------------------------------------
(* Properties of the sentiment analysis *)

Analyzed == returned.op = "analyzeSentiment" /\ ~returned.threw

Hits(words) ==
    Cardinality({ word \in { words[k] : k \in 1..Len(words) } :
                    Includes(ToLowerCase(args.text), word) })

(* C13: analyzeSentiment returns positive exactly when the positive        *)
(* keywords found exceed the negative keywords found plus 1, negative      *)
(* exactly when the negative ones exceed the positive ones, and neutral    *)
(* otherwise: 2 positive hits with 1 negative hit give neutral.            *)
C13_SentimentMargin ==
    Analyzed =>
        LET positiveHits == Hits(positiveWords)
            negativeHits == Hits(negativeWords)
            sentiment == returned.value.sentiment
        IN  /\ sentiment \in { "positive", "negative", "neutral" }
            /\ sentiment = "positive" <=> positiveHits > negativeHits + 1
            /\ sentiment = "negative" <=> negativeHits > positiveHits
            /\ positiveHits = 2 /\ negativeHits = 1 => sentiment = "neutral"

C13_Witness ==
    /\ Analyzed
    /\ Hits(positiveWords) = 2
    /\ Hits(negativeWords) = 1
    /\ returned.value.sentiment = "neutral"

(* C14: analyzeSentiment of the empty string or of a text of white space   *)
(* only does not throw and returns neutral with no concern.                *)
C14_EmptyTextIsNeutral ==
    returned.op = "analyzeSentiment" /\ Trim(args.text) = << >> =>
        /\ ~returned.threw
        /\ returned.value.sentiment = "neutral"
        /\ returned.value.concerns = {}

C14_Witness ==
    /\ Analyzed
    /\ Len(args.text) > 1
    /\ Trim(args.text) = << >>
    /\ returned.value.sentiment = "neutral"

----------------------------------------------------------------------------
(* Scoring one event.  A profile, where one is kept, is handed along with  *)
(* the event; calculateEventScore has the event as its only parameter.     *)

NoProfile == [ budget |-> "none" ]

Profiles ==
    { NoProfile,
      [ personalityTraits |-> { "E", "N", "F", "P" },
        vibes |-> { "energetic", "social" }, budget |-> "moderate",
        groupSize |-> "couple", timePreference |-> "evening" ],
      [ personalityTraits |-> { "I", "S", "T", "J" },
        vibes |-> { "relaxed" }, budget |-> "free",
        groupSize |-> "solo", timePreference |-> "morning" ] }

ScoredDates ==
    { Unparseable, Today - 40, Today - 1, Today, Today + 1, Today + 7, Today + 8,
      Today + 30, Today + 31, Today + 365 }

ScoredEvents ==
    [ userSubmitted : BOOLEAN,
      date : ScoredDates,
      priceCategory : { "free", "budget", "moderate", "premium" },
      personalityTags : { { "E", "N", "F", "P" }, {} },
      vibes : { { "energetic", "social" } },
      groupSizes : { { "couple", "small" } },
      time : { "evening" } ]

ScoreInstants ==
    { Today * HoursPerDay, Today * HoursPerDay + 15, Today * HoursPerDay + 23 }

InitScore ==
    /\ PageLoaded
    /\ hostZone = 0
    /\ args \in [ op : { "calculateEventScore" }, event : ScoredEvents,
                   profile : Profiles, instant : ScoreInstants ]
    /\ returned = NoCall

CallScore ==
    /\ args.op = "calculateEventScore"
    /\ returned = NoCall
    /\ returned' = [ op |-> "calculateEventScore", threw |-> FALSE,
                     value |-> calculateEventScore(args.event, args.instant) ]
    /\ UNCHANGED << savedEvents, isAdmin >>
    /\ UNCHANGED << userSubmittedEvents, events, reviews, currentEventId,
                    scrapedEventsCache, stars, reviewText, store, now, lastAlert,
                    deletedIds, scenario, hostZone, args >>

NextScore == CallScore

SpecScore == InitScore /\ [][NextScore]_vars

----------------------------------------------------------------------------
(* Properties of the score *)

Scored == returned.op = "calculateEventScore"

(* C15: calculateEventScore returns an integer in [0,100] for every event, *)
(* whatever its userSubmitted flag, its date (past, today, future or       *)
(* unparseable) and its priceCategory.                                     *)
C15_ScoreInRange ==
    Scored => ~returned.threw /\ returned.value \in 0..100

C15_Witness ==
    /\ Scored
    /\ args.event.date = Unparseable
    /\ args.event.userSubmitted
    /\ returned.value = 65

(* The score the recency mode is to give: the day of the event against     *)
(* the day of the call                                                     *)
DaysFromToday(event, instant) == event.date - (instant \div HoursPerDay)

RecencyScore(event, instant) ==
    Min(100,
        50 + (IF event.userSubmitted THEN 10 ELSE 0)
           + (IF event.date = Unparseable THEN 0
              ELSE IF DaysFromToday(event, instant) \in 0..7 THEN 20
              ELSE IF DaysFromToday(event, instant) \in 8..30 THEN 10
              ELSE 0)
           + (IF event.priceCategory = "free" THEN 5 ELSE 0))

(* C16: without a profile the score is min(100, 50 + 10 if user submitted  *)
(* + 20 if the event is 0 to 7 days from now, else 10 if 8 to 30 days      *)
(* + 5 if free); an event dated today receives the 20 and a past event no  *)
(* recency bonus.                                                          *)
C16_RecencyScore ==
    Scored /\ args.profile = NoProfile =>
        returned.value = RecencyScore(args.event, args.instant)

(* The profile score, in half points: personality 40, vibes 30, budget 15  *)
(* (7.5 on an adjacent tier), group size 10, time 5                        *)
AdjacentTiers ==
    { { "free", "budget" }, { "budget", "moderate" }, { "premium", "moderate" } }

ProfileHalfPoints(event, profile) ==
      2 * 10 * Cardinality(profile.personalityTraits \cap event.personalityTags)
    + (IF event.vibes = {} THEN 0
       ELSE (2 * 30 * Cardinality(profile.vibes \cap event.vibes))
                \div Min(Cardinality(event.vibes), 3))
    + (IF profile.budget = event.priceCategory THEN 30
       ELSE IF { profile.budget, event.priceCategory } \in AdjacentTiers THEN 15
       ELSE 0)
    + (IF profile.groupSize \in event.groupSizes THEN 20 ELSE 0)
    + (IF profile.timePreference = event.time THEN 10 ELSE 0)

(* Math.round of half points *)
ProfileScore(event, profile) == (ProfileHalfPoints(event, profile) + 1) \div 2

(* C17: with a profile the score of an event is the rounded sum of the     *)
(* personality, vibe, budget, group and time points of the profile         *)
(* against the event; without a profile the scorer gives the recency       *)
(* score and does not fail.                                                *)
C17_ProfileScore ==
    Scored =>
        /\ ~returned.threw
        /\ returned.value =
              IF args.profile = NoProfile
              THEN calculateEventScore(args.event, args.instant)
              ELSE ProfileScore(args.event, args.profile)

----------------------------------------------------------------------------
(* Extraction called on its own, in hosts of several time zones *)

Zones == { 0 - 5, 0, 9 }

HeadingTexts == << "$25", "20", "Free", "$51" >>

Headings(n) == [ k \in 1..n |-> Element(HeadingTexts[(k % Len(HeadingTexts)) + 1]) ]

EventDay == Today + 12

OneEvent(offers, startDate) ==
    Document(<< Block(TRUE, << Item("Event", offers, startDate) >>) >>, << >>)

ExtractDocs ==
    { OneEvent(offers, LocalDateTime(EventDay, hour)) :
          offers \in { "0", "25", "51" }, hour \in { 0, 12, 20 } }
    \cup { OneEvent("25", NoStartDate), OneEvent("none", DateOnly(EventDay)) }
    \cup { WithHeadings(Document(<< >>, << >>), Headings(n)) :
              n \in { 1, 3, HeadingLimit - 1, HeadingLimit, HeadingLimit + 1,
                      HeadingLimit + 2 } }
    \cup { WithHeadings(doc, Headings(3)) : doc \in IngestDocs }
    \cup IngestDocs

ExtractRandoms(n) == { [ k \in 1..n |-> r ] : r \in Fractions }

InitExtract ==
    /\ PageLoaded
    /\ hostZone \in Zones
    /\ \E doc \in ExtractDocs, t \in Clock :
          \E rs \in ExtractRandoms(DraftCount(doc)) :
              args = [ op |-> "extractEventsFromHtml", doc |-> doc, t |-> t,
                       rs |-> rs ]
    /\ returned = NoCall

CallExtract ==
    /\ args.op = "extractEventsFromHtml"
    /\ returned = NoCall
    /\ returned' = [ op |-> "extractEventsFromHtml", threw |-> FALSE,
                     value |-> extractEventsFromHtml(args.doc, args.t, args.rs) ]
    /\ UNCHANGED << savedEvents, isAdmin >>
    /\ UNCHANGED << userSubmittedEvents, events, reviews, currentEventId,
                    scrapedEventsCache, stars, reviewText, store, now, lastAlert,
                    deletedIds, scenario, hostZone, args >>

NextExtract == CallExtract

SpecExtract == InitExtract /\ [][NextExtract]_vars

----------------------------------------------------------------------------
(* Properties of the extraction *)

Extracted == returned.op = "extractEventsFromHtml"

StructuredDrafts == CreateAll(JsonLdItems(args.doc.blocks), 1, args.t, args.rs)

PatternDrafts == extractEventsFromHtmlPatterns(args.doc, args.t, args.rs)

(* C18: extractEventsFromHtml returns the drafts of the structured-data    *)
(* strategy when there is at least one, and the drafts of the pattern      *)
(* strategy only when the first strategy produced none; it never returns   *)
(* drafts of both.                                                         *)
C18_FirstStrategyWins ==
    Extracted =>
        /\ StructuredDrafts # << >> => returned.value = StructuredDrafts
        /\ StructuredDrafts = << >> => returned.value = PatternDrafts

C18_Witness ==
    /\ Extracted
    /\ StructuredDrafts # << >>
    /\ PatternDrafts # << >>
    /\ returned.value = StructuredDrafts
    /\ Len(returned.value) < Len(StructuredDrafts) + Len(PatternDrafts)

OneEventBlock(doc) ==
    /\ Len(doc.blocks) = 1
    /\ doc.blocks[1].ok
    /\ Len(doc.blocks[1].items) = 1
    /\ doc.blocks[1].items[1].type = "Event"
    /\ doc.blocks[1].items[1].startDate.kind = "local"
    /\ ParseFloat(doc.blocks[1].items[1].offers) # NaN

(* C19: one structured-data Event block whose startDate is a date and a    *)
(* time of day without zone and whose offers.price is a numeric string     *)
(* yields exactly one draft, with the date written in startDate, the       *)
(* price, the priceCategory of the thresholds and status pending, in       *)
(* every host time zone.                                                   *)
C19_DateAsWritten ==
    Extracted /\ OneEventBlock(args.doc) =>
        LET item == args.doc.blocks[1].items[1] IN
        /\ Len(returned.value) = 1
        /\ returned.value[1].date = item.startDate.day
        /\ returned.value[1].price = ParseFloat(item.offers)
        /\ returned.value[1].priceCategory = ThresholdCategory(ParseFloat(item.offers))
        /\ returned.value[1].status = "pending"

(* C20: with no structured data and no container element, the pattern     *)
(* strategy gives one draft per heading, in document order, for the first  *)
(* 10 headings: n headings give min(n, 10) drafts.                         *)
C20_OneDraftPerHeading ==
    Extracted /\ args.doc.blocks = << >> /\ args.doc.elements = << >> =>
        /\ Len(returned.value) = Min(Len(args.doc.headings), 10)
        /\ Len(args.doc.headings) = 3 => Len(returned.value) = 3
        /\ \A k \in 1..Len(returned.value) :
              /\ returned.value[k].price = PatternPrice(args.doc.headings[k].priceText)
              /\ returned.value[k].id =
                    RandomId(args.t, args.rs[k]) + (k - 1) * FracSteps

C20_Witness ==
    /\ Extracted
    /\ args.doc.blocks = << >>
    /\ args.doc.elements = << >>
    /\ Len(args.doc.headings) > 10
    /\ Len(returned.value) = 10
    /\ returned.value[1].price # returned.value[2].price

----------------------------------------------------------------------------
(* Properties of the scrape preview queue *)

AwaitsModeration(event) == event.status = "pending" /\ event.userSubmitted

(* C21: every draft of either extraction strategy, every event of          *)
(* scrapedEventsCache after any updateScrapedEvent and removeScrapedEvent, *)
(* and every event approveSingleScrapedEvent or bulkApproveScrapedEvents   *)
(* appends to userSubmittedEvents has status pending and userSubmitted     *)
(* true; none of these operations adds an event to the public view.        *)
C21_QueuedDraftsArePending ==
    /\ \A i \in 1..Len(scrapedEventsCache) : AwaitsModeration(scrapedEventsCache[i])
    /\ \A i \in 1..Len(userSubmittedEvents) : AwaitsModeration(userSubmittedEvents[i])
    /\ events = EVENTS_DATA

C21_Witness ==
    /\ \E i \in 1..Len(scrapedEventsCache) :
          /\ scrapedEventsCache[i].description > MaxDescription
          /\ scrapedEventsCache[i].priceCategory = "free"
    /\ \E i \in 1..Len(userSubmittedEvents) :
          /\ userSubmittedEvents[i].id # ParseInt(userSubmittedEvents[i].id)
          /\ userSubmittedEvents[i].priceCategory = "free"
    /\ lastAlert = "Event \"${event.name}\" added to pending events!"

(* The Event items of a document that are well formed, by block and       *)
(* position                                                                *)
WellFormedEvent(item) ==
    /\ item.type \in { "Event", "MusicEvent" }
    /\ item.startDate.kind # "invalid"
    /\ item.offers # "empty"
    /\ item.description # NotAString

WellFormedIn(doc, blocks) ==
    { << b, i >> \in blocks \X (1..4) :
          /\ i <= Len(doc.blocks[b].items)
          /\ WellFormedEvent(doc.blocks[b].items[i]) }

ParsedBlocks(doc) == { b \in 1..Len(doc.blocks) : doc.blocks[b].ok }

(* The blocks that parse and hold no item with an @type that is neither a  *)
(* string nor null                                                         *)
SoundBlocks(doc) ==
    { b \in ParsedBlocks(doc) :
          \A i \in 1..Len(doc.blocks[b].items) :
              doc.blocks[b].items[i].type # "number" }

NoEventsFound ==
    "No events found in the provided HTML. Try a different page or check the HTML structure."

(* C22: parseScrapedHtml ends with the result of the extraction whatever   *)
(* is malformed in the page: the well-formed Event items of the blocks     *)
(* without a malformed @type are all returned, a malformed item gives no   *)
(* draft, and a page without any event under both strategies is reported   *)
(* as holding no events and leaves scrapedEventsCache unchanged.           *)
C22_MalformedDataIsSkipped ==
    [][ \A doc \in QueueDocs \ { NoHtml } :
          ( \E rs \in [ 1..DraftCount(doc) -> { 0 } ] :
                parseScrapedHtml("Will's Pub", doc, now, rs) )
          => /\ Cardinality(WellFormedIn(doc, SoundBlocks(doc))) > 0
                => /\ Len(scrapedEventsCache') >=
                          Cardinality(WellFormedIn(doc, SoundBlocks(doc)))
                   /\ Len(scrapedEventsCache') <=
                          Cardinality(WellFormedIn(doc, ParsedBlocks(doc)))
                   /\ lastAlert' = "Successfully extracted ${events.length} event(s)!"
             /\ ( /\ WellFormedIn(doc, ParsedBlocks(doc)) = {}
                  /\ doc.elements = << >>
                  /\ doc.headings = << >> )
                => /\ lastAlert' = NoEventsFound
                   /\ UNCHANGED scrapedEventsCache
             /\ lastAlert' \in { NoEventsFound,
                                 "Successfully extracted ${events.length} event(s)!" }
      ]_vars

C22_Witness ==
    /\ lastAlert = NoEventsFound
    /\ \E i \in 1..Len(scrapedEventsCache) :
          scrapedEventsCache[i].description > MaxDescription

(* C23: every event of userSubmittedEvents, whether it came from the form  *)
(* or from extraction, edits in the preview and approval, has a            *)
(* description of at most 500 characters.                                  *)
C23_DescriptionCapped ==
    \A i \in 1..Len(userSubmittedEvents) :
        userSubmittedEvents[i].description <= 500

(* The saved list, of a view with drafts of the form and of the queue *)

SavedDocs ==
    { Document(<< Block(TRUE, << Item("Event", "25", NoStartDate) >>) >>, << >>) }

NextSaved ==
    \/ Submit(ModerationPrices, ModerationDescriptions, { now })
          /\ UNCHANGED callVars
    \/ Parse({ "Will's Pub" }, SavedDocs, { now }, { 0 })
          /\ UNCHANGED callVars
    \/ ApproveSingle({ now })
          /\ UNCHANGED callVars
    \/ \E eventId \in IdsOf(userSubmittedEvents) : approveEvent(eventId)
          /\ UNCHANGED callVars
    \/ \E cardId \in IdsOf(events) : clickSaveButton(cardId)
          /\ UNCHANGED callVars
    \/ loadStateFromLocalStorage
          /\ UNCHANGED callVars

SpecSaved == Init /\ [][NextSaved]_vars

----------------------------------------------------------------------------
(* Properties of persistence *)

Persisted == StoredState(userSubmittedEvents, savedEvents, reviews, isAdmin)

(* C24: in every reachable state the store holds the serialization of the  *)
(* current userSubmittedEvents, savedEvents, reviews and isAdmin; before   *)
(* the first save the collections are the empty ones a load of the empty   *)
(* store gives.                                                            *)
C24_MemoryEqualsStore ==
    IF store.written
    THEN store = Persisted
    ELSE /\ userSubmittedEvents = << >>
         /\ savedEvents = {}
         /\ reviews = << >>
         /\ isAdmin = FALSE

(* The same, of the states no run of displayReviews has led to: each       *)
(* handler that changes a collection saves it.                             *)
C24_HandlersSave ==
    [][ ~ displayReviews /\ C24_MemoryEqualsStore => C24_MemoryEqualsStore' ]_vars

(* C26: the public view has the same events, each as many times, as the   *)
(* view loadStateFromLocalStorage would rebuild from the store.            *)
C26_ViewEqualsRestartView ==
    \A eventId \in IdsOf(events) \cup IdsOf(RestartView) :
        CountId(events, eventId) = CountId(RestartView, eventId)

----------------------------------------------------------------------------
(* Properties of the frame of moderation *)

(* The id and the status of each entry, in order *)
Plain(seq) ==
    [ k \in 1..Len(seq) |-> [ id |-> seq[k].id, status |-> seq[k].status ] ]

(* The entries that are not the draft object obj *)
ExceptObject(seq, obj) == SelectSeq(seq, LAMBDA e : e.obj # obj)

(* The entries of the view that are not draft X, X being the draft at      *)
(* position i of the drafts (none when i = 0)                              *)
OtherEntries(view, i) == IF i = 0 THEN view ELSE ExceptObject(view, i)

(* C29: approveEvent, rejectEvent and deleteEvent on the id of draft X     *)
(* leave every other draft as it is in userSubmittedEvents and in events,  *)
(* and leave savedEvents and reviews unchanged; rejectEvent on a draft     *)
(* that is not approved leaves events unchanged; deleteEvent that is       *)
(* declined changes nothing.                                               *)
C29_OnlyDraftXChanges ==
    [][ \A eventId \in ModerationIds :
          LET i == FindIndex(userSubmittedEvents, eventId) IN
          /\ approveEvent(eventId) \/ rejectEvent(eventId)
                => /\ Plain(OtherEntries(userSubmittedEvents', i))
                        = Plain(OtherEntries(userSubmittedEvents, i))
                   /\ Plain(OtherEntries(events', i)) = Plain(OtherEntries(events, i))
                   /\ UNCHANGED << savedEvents, reviews >>
          /\ ( /\ rejectEvent(eventId)
               /\ i # 0
               /\ userSubmittedEvents[i].status # "approved" )
                => events' = events
          /\ deleteEvent(eventId, TRUE)
                => /\ Plain(userSubmittedEvents')
                        = Plain(OtherEntries(userSubmittedEvents, i))
                   /\ Plain(events') = Plain(OtherEntries(events, i))
                   /\ UNCHANGED << savedEvents, reviews >>
          /\ deleteEvent(eventId, FALSE)
                => UNCHANGED << userSubmittedEvents, events, savedEvents, reviews,
                                store >>
      ]_vars

----------------------------------------------------------------------------
(* Properties of the saved list *)

Listed(eventId) ==
    \E i \in 1..Len(SavedEventsList) : SavedEventsList[i].id = eventId

(* C25: the save button of the card of any event of the view, whatever the *)
(* form of its id, makes displaySavedEvents list the event when it was not *)
(* listed, and removes it from the list when it was.                       *)
C25_SaveButtonListsEvent ==
    [][ \A cardId \in IdsOf(events) :
            clickSaveButton(cardId) => (Listed(cardId)' <=> ~ Listed(cardId))
      ]_vars

----------------------------------------------------------------------------
(* Properties of reviews under moderation *)

(* AppState.events.find(e => e.id === review.eventId) returns an event *)
EventFound(eventId) == FindIndex(events, eventId) # 0

(* C27: every review of AppState.reviews refers to an event of the view,   *)
(* so displayReviews finds the event of each review it renders.            *)
C27_ReviewedEventsInView ==
    \A i \in 1..Len(reviews) : EventFound(reviews[i].eventId)

(* C28: handleReviewSubmit stores and persists a review, and runs          *)
(* generateContextualRecommendations, only when the event under review is  *)
(* in AppState.events.                                                     *)
C28_ReviewOnlyOfViewEvent ==
    [][ \A t \in ReviewTimes :
            ( /\ handleReviewSubmit(t)
              /\ ReviewAccepted \/ reviews' # reviews \/ store' # store )
            => EventFound(currentEventId)
      ]_vars

----------------------------------------------------------------------------
(* Properties of the similar events *)

UniqueIds(view) ==
    \A j, k \in 1..Len(view) : view[j].id = view[k].id => j = k

(* C30: for a rating of 4 or more and a view that holds each event once,   *)
(* the first min(3, n) recommendations, n being the number of events other *)
(* than the reviewed one, carry the badge 'similar' alone and are the      *)
(* events of highest similarity to the reviewed event, in descending       *)
(* order; the similarity is 20 for the same category, 10 for each shared   *)
(* vibe, 15 for the same priceCategory, 10 for the same time and 10 for    *)
(* the same interactivity.                                                 *)
C30_MostSimilarFirst ==
    ( Recommended /\ args.rating >= 4 /\ UniqueIds(events) ) =>
        LET reviewed == Find(events, currentEventId)
            others == { k \in 1..Len(events) : events[k].id # currentEventId }
            first == Min(3, Cardinality(others))
            value == returned.value
            Similarity(e) ==
                  (IF e.category = reviewed.category THEN 20 ELSE 0)
                + 10 * Cardinality(e.vibes \cap reviewed.vibes)
                + (IF e.priceCategory = reviewed.priceCategory THEN 15 ELSE 0)
                + (IF e.time = reviewed.time THEN 10 ELSE 0)
                + (IF e.interactivity = reviewed.interactivity THEN 10 ELSE 0)
        IN  /\ Len(value) >= first
            /\ \A k \in 1..first :
                  /\ value[k].badges = << "similar" >>
                  /\ \E j \in others : events[j] = value[k].event
            /\ \A k \in 1..(first - 1) :
                  Similarity(value[k].event) >= Similarity(value[k + 1].event)
            /\ \A j \in others :
                  (\A k \in 1..first : value[k].event.id # events[j].id)
                      => Similarity(events[j]) <= Similarity(value[first].event)

C30_Witness ==
    /\ Recommended
    /\ args.rating >= 4
    /\ UniqueIds(events)
    /\ Len(Others(events, currentEventId)) > 3
    /\ Len(returned.value) > 3
    /\ calculateSimilarity(Find(events, currentEventId), returned.value[1].event)
          > calculateSimilarity(Find(events, currentEventId), returned.value[3].event)
    /\ \E j \in 1..Len(events) :
          /\ events[j].id # currentEventId
          /\ \A k \in 1..3 : returned.value[k].event.id # events[j].id
          /\ calculateSimilarity(Find(events, currentEventId), events[j]) > 0

----------------------------------------------------------------------------
(* Properties of the rules of the recommendations *)

BadgeOf(rec) == rec.badges[1]

(* C31: every recommendation returned satisfies the filter of the rule its *)
(* badge names: 'budget-friendly' is free or budget and of the reviewed    *)
(* event's category or shares a vibe with it; 'intimate' is of small       *)
(* capacity and of that category or shares a vibe; 'interactive' is of     *)
(* high interactivity; 'fresh-perspective' is of another category, for a   *)
(* rating of at most 2 and no concern.                                     *)
C31_BadgeImpliesFilter ==
    Recommended =>
        \A k \in 1..Len(returned.value) :
            LET rec == returned.value[k]
                e == rec.event
                reviewed == Find(events, currentEventId)
                Akin ==
                    /\ reviewed # Undefined
                    /\ \/ e.category = reviewed.category
                       \/ \E v \in e.vibes : v \in reviewed.vibes
            IN  /\ BadgeOf(rec) = "budget-friendly"
                      => e.priceCategory \in { "free", "budget" } /\ Akin
                /\ BadgeOf(rec) = "intimate" => e.capacity = "small" /\ Akin
                /\ BadgeOf(rec) = "interactive" => e.interactivity = "high"
                /\ BadgeOf(rec) = "fresh-perspective"
                      => /\ reviewed # Undefined
                         /\ e.category # reviewed.category
                         /\ args.rating <= 2
                         /\ args.sentiment.concerns = {}

C31_Witness ==
    /\ Recommended
    /\ \A badge \in { "budget-friendly", "intimate", "interactive" } :
          \E k \in 1..Len(returned.value) : BadgeOf(returned.value[k]) = badge
    /\ \E k \in 1..Len(events) :
          /\ events[k].id # currentEventId
          /\ events[k].priceCategory \in { "free", "budget" }
          /\ ~ Related(events[k], Find(events, currentEventId))

(* The filter of a concern's rule, as the rules are stated: an event other *)
(* than the reviewed one that is free or budget and akin to the reviewed   *)
(* event (price), small and akin (crowd), of high interactivity (boring)   *)
ConcernMatches(concern) ==
    LET reviewed == Find(events, currentEventId)
        Akin(e) ==
            /\ reviewed # Undefined
            /\ e.category = reviewed.category \/ e.vibes \cap reviewed.vibes # {}
    IN  \E k \in 1..Len(events) :
            /\ events[k].id # currentEventId
            /\ CASE concern = "price" ->
                       events[k].priceCategory \in { "free", "budget" } /\ Akin(events[k])
                 [] concern = "crowd" ->
                       events[k].capacity = "small" /\ Akin(events[k])
                 [] concern = "boring" -> events[k].interactivity = "high"

ReviewedInView == Find(events, currentEventId) # Undefined

NoConcernMatches ==
    /\ args.sentiment.concerns # {}
    /\ \A concern \in args.sentiment.concerns : ~ ConcernMatches(concern)

Called == returned.op = "generateContextualRecommendations"

----------------------------------------------------------------------------
(* Properties of the keywords of the sentiment analysis *)

(* word occurs in the text at offset i, letter case ignored *)
OccursAt(word, i) ==
    \A j \in 1..Len(word) : LowerCase(args.text[i + j]) = word[j]

Occurrences(word) ==
    { i \in 0..(Len(args.text) - Len(word)) : OccursAt(word, i) }

Vocabulary(concern) ==
    CASE concern = "price" -> priceComplaints
      [] concern = "crowd" -> crowdComplaints
      [] concern = "boring" -> boringComplaints

ConcernsFlagged ==
    \A concern \in { "price", "crowd", "boring" } :
        concern \in returned.value.concerns
            <=> \E k \in 1..Len(Vocabulary(concern)) :
                    Occurrences(Vocabulary(concern)[k]) # {}

KeywordsCountedOnce ==
    /\ returned.value.positiveCount =
           Cardinality({ k \in 1..Len(positiveWords) :
                           Occurrences(positiveWords[k]) # {} })
    /\ returned.value.negativeCount =
           Cardinality({ k \in 1..Len(negativeWords) :
                           Occurrences(negativeWords[k]) # {} })

SameForLowerCase == analyzeSentiment(ToLowerCase(args.text)) = returned

SameForUpperCase == analyzeSentiment(ToUpperCase(args.text)) = returned

(* Every character of the text has the lower case of its upper case *)
CaseRoundTrips ==
    \A i \in 1..Len(args.text) :
        LowerCase(UpperCase(args.text[i])) = LowerCase(args.text[i])

(* C33: analyzeSentiment flags a concern exactly when a keyword of its     *)
(* vocabulary occurs in the text, letter case ignored, counts each         *)
(* positive or negative keyword once however often it occurs, and gives    *)
(* the same result for the text, its lower-cased and its upper-cased form. *)
C33_SameInEveryCase ==
    Analyzed =>
        /\ ConcernsFlagged
        /\ KeywordsCountedOnce
        /\ SameForLowerCase
        /\ SameForUpperCase

(* C33, amended: the same, the result for the upper-cased form being       *)
(* required of the texts whose characters all have the lower case of       *)
(* their upper case.                                                       *)
C33_SameInEveryCaseThatRoundTrips ==
    Analyzed =>
        /\ ConcernsFlagged
        /\ KeywordsCountedOnce
        /\ SameForLowerCase
        /\ CaseRoundTrips => SameForUpperCase

C33_Witness ==
    /\ Analyzed
    /\ CaseRoundTrips
    /\ ToUpperCase(args.text) # args.text
    /\ ToLowerCase(args.text) # args.text
    /\ returned.value.concerns = { "crowd", "boring" }
    /\ \E k \in 1..Len(negativeWords) :
          Cardinality(Occurrences(negativeWords[k])) > 1
    /\ returned.value.negativeCount = 1

----------------------------------------------------------------------------
(* Properties of the score of an event with a malformed date *)

(* C34: for an event whose date does not parse, calculateEventScore does   *)
(* not throw and returns the score without recency bonus: 50, plus 10 for  *)
(* a user-submitted event, plus 5 for a free one.                          *)
C34_MalformedDateNoBonus ==
    Scored /\ args.event.date = Unparseable =>
        /\ ~ returned.threw
        /\ returned.value = 50 + (IF args.event.userSubmitted THEN 10 ELSE 0)
                               + (IF args.event.priceCategory = "free" THEN 5 ELSE 0)

C34_Witness ==
    /\ Scored
    /\ args.event.date = Unparseable
    /\ ~ args.event.userSubmitted
    /\ args.event.priceCategory = "free"
    /\ returned.value = 55

----------------------------------------------------------------------------
(* The fields of a draft of the pattern strategy.  A container has a       *)
(* title and may have a date, a time and a price sub-element; its          *)
(* textContent is the texts of its sub-elements in document order.  A text *)
(* read from the container is the list of the texts it is made of, the     *)
(* empty list being the empty string.                                      *)

NoElement == [ found |-> FALSE ]

SubElement(text) == [ found |-> TRUE, text |-> text ]

Container(title, date, time, price) ==
    [ title |-> SubElement(title), date |-> date, time |-> time, price |-> price ]

TextsOf(subs) ==
    LET found == SelectSeq(subs, LAMBDA sub : sub.found /\ sub.text # "")
    IN  [ k \in 1..Len(found) |-> found[k].text ]

(* element.textContent.trim() *)
TextContent(element) ==
    TextsOf(<< element.title, element.date, element.time, element.price >>)

(* const el = element.querySelector(selector) || element;                  *)
(* return el.textContent.trim()                                            *)
extractText_OrNothing(element, field) ==
    IF element[field].found THEN TextsOf(<< element[field] >>) ELSE << >>

extractText(element, field) ==
    IF element[field].found THEN TextsOf(<< element[field] >>)
    ELSE TextContent(element)

(* The day new Date(text) gives.  A date YYYY-MM-DD alone is read as that  *)
(* day; a text without digits gives the Invalid Date; any other text is    *)
(* left to the host's own parser, which gives the Invalid Date or, when it *)
(* is lenient, the day it makes of the digits.                             *)
LenientDay == Today + 1

HasDigits(text) == PriceMatch(text) # "no match"

ParsedDay(texts, lenient) ==
    IF texts = << "2026-03-05" >> THEN EventDay
    ELSE IF \A k \in 1..Len(texts) : ~ HasDigits(texts[k]) THEN Unparseable
    ELSE IF lenient THEN LenientDay
    ELSE Unparseable

(* priceText.match(...) on a text of several parts: the first run of digits *)
FirstPriceMatch(texts) ==
    IF \A k \in 1..Len(texts) : ~ HasDigits(texts[k]) THEN "no match"
    ELSE PriceMatch(texts[CHOOSE k \in 1..Len(texts) :
                              /\ HasDigits(texts[k])
                              /\ \A j \in 1..(k - 1) : ~ HasDigits(texts[j])])

(* The date, time, price and priceCategory that the body of the forEach of *)
(* extractEventsFromHtmlPatterns gives the draft of one element            *)
PatternFields(element, t, lenient) ==
    LET dateText == extractText(element, "date")
        timeText == extractText(element, "time")
        priceText == extractText(element, "price")
        price == IF FirstPriceMatch(priceText) = "no match" THEN 0
                 ELSE ParseMatched(FirstPriceMatch(priceText))
    IN  [ date |-> IF dateText # << >> /\ ParsedDay(dateText, lenient) # Unparseable
                   THEN ParsedDay(dateText, lenient)
                   ELSE ExtractionDate(t),
          time |-> IF timeText = << >> THEN << "TBD" >> ELSE timeText,
          price |-> price,
          priceCategory |-> PriceCategoryOfScrape(price) ]

Titles == { "", "Jazz Night", "Doors 7 pm" }

Containers ==
    { Container(title, date, time, price) :
        title \in Titles,
        date \in { NoElement, SubElement("2026-03-05"), SubElement("soon"),
                   SubElement("") },
        time \in { NoElement, SubElement("8:00 PM"), SubElement("") },
        price \in { NoElement, SubElement("$25"), SubElement("Free"),
                    SubElement("") } }

InitPattern ==
    /\ PageLoaded
    /\ hostZone = 0
    /\ args \in [ op : { "extractEventsFromHtmlPatterns" }, element : Containers,
                   t : Clock, lenient : BOOLEAN ]
    /\ returned = NoCall

CallPattern ==
    /\ args.op = "extractEventsFromHtmlPatterns"
    /\ returned = NoCall
    /\ returned' = [ op |-> "extractEventsFromHtmlPatterns", threw |-> FALSE,
                     value |-> PatternFields(args.element, args.t, args.lenient) ]
    /\ UNCHANGED << savedEvents, isAdmin >>
    /\ UNCHANGED << userSubmittedEvents, events, reviews, currentEventId,
                    scrapedEventsCache, stars, reviewText, store, now, lastAlert,
                    deletedIds, scenario, hostZone, args >>

NextPattern == CallPattern

SpecPattern == InitPattern /\ [][NextPattern]_vars

----------------------------------------------------------------------------
(* Properties of the fields of the pattern strategy *)

PatternRead == returned.op = "extractEventsFromHtmlPatterns"

(* C35: each field is read from its own sub-element: a container with no   *)
(* price sub-element gets price 0 and priceCategory 'free', one with no    *)
(* time sub-element gets time 'TBD', and one with no date sub-element or   *)
(* with a date text that does not parse gets the extraction date,          *)
(* whatever the rest of the container's text holds.                        *)
C35_FieldsFromSubElements ==
    PatternRead =>
        LET element == args.element
            fields == returned.value
        IN  /\ ~ element.price.found
                  => fields.price = 0 /\ fields.priceCategory = "free"
            /\ ~ element.time.found => fields.time = << "TBD" >>
            /\ ( \/ ~ element.date.found
                 \/ ParsedDay(<< element.date.text >>, args.lenient) = Unparseable )
                  => fields.date = ExtractionDate(args.t)

----------------------------------------------------------------------------
(* The fields of a draft of the structured-data strategy.  The offers of   *)
(* an item are absent, one offer or a list of offers; an offer is its      *)
(* price text ("no price" when it has none).  The url is a text, empty     *)
(* when the item has none.                                                 *)

NoOffers == [ kind |-> "none" ]

OneOffer(price) == [ kind |-> "one", price |-> price ]

OfferList(prices) == [ kind |-> "list", prices |-> prices ]

JsonLdEvent(startDate, offers, url) ==
    [ startDate |-> startDate, offers |-> offers, url |-> url ]

(* Array.isArray(jsonData.offers) ? jsonData.offers[0] : jsonData.offers;  *)
(* "undefined" for the first offer of an empty list                        *)
FirstOffer_Last(offers) ==
    IF offers.kind = "one" THEN offers.price
    ELSE IF offers.prices = << >> THEN "undefined"
    ELSE offers.prices[Len(offers.prices)]

FirstOffer(offers) ==
    IF offers.kind = "one" THEN offers.price
    ELSE IF offers.prices = << >> THEN "undefined"
    ELSE Head(offers.prices)

(* jsonData.url || sourceUrl || '' *)
ExternalLink(url, sourceUrl) == IF url # "" THEN url ELSE sourceUrl

(* The date, time, price, priceCategory and externalLink of the draft      *)
(* createEventFromJsonLd returns, or the throw its catch turns into null   *)
JsonLdFields(jsonData, sourceUrl, t) ==
    IF \/ jsonData.startDate.kind = "invalid"
       \/ jsonData.offers.kind # "none" /\ FirstOffer(jsonData.offers) = "undefined"
    THEN [ op |-> "createEventFromJsonLd", threw |-> TRUE ]
    ELSE LET price == IF jsonData.offers.kind = "none" THEN 0
                      ELSE OfferPrice(FirstOffer(jsonData.offers))
         IN  [ op |-> "createEventFromJsonLd", threw |-> FALSE,
               value |-> [ date |-> JsonLdDate(jsonData.startDate, t),
                           time |-> IF jsonData.startDate.kind = "none" THEN "TBD"
                                    ELSE "toLocaleTimeString",
                           price |-> price,
                           priceCategory |-> PriceCategoryOfScrape(price),
                           externalLink |-> ExternalLink(jsonData.url, sourceUrl) ] ]

JsonLdEvents ==
    { JsonLdEvent(startDate, offers, url) :
        startDate \in { NoStartDate, InvalidStartDate, DateOnly(EventDay),
                        LocalDateTime(EventDay, 20) },
        offers \in { NoOffers, OneOffer("25"), OneOffer("no price"),
                     OfferList(<< >>), OfferList(<< "25", "51" >>),
                     OfferList(<< "0", "25" >>), OfferList(<< "abc", "25" >>) },
        url \in { "", "https://venue.example/show" } }

SourceUrls == { "", "https://venue.example" }

InitJsonLd ==
    /\ PageLoaded
    /\ hostZone = 0
    /\ args \in [ op : { "createEventFromJsonLd" }, jsonData : JsonLdEvents,
                   sourceUrl : SourceUrls, t : Clock ]
    /\ returned = NoCall

CallJsonLd ==
    /\ args.op = "createEventFromJsonLd"
    /\ returned = NoCall
    /\ returned' = JsonLdFields(args.jsonData, args.sourceUrl, args.t)
    /\ UNCHANGED << savedEvents, isAdmin >>
    /\ UNCHANGED << userSubmittedEvents, events, reviews, currentEventId,
                    scrapedEventsCache, stars, reviewText, store, now, lastAlert,
                    deletedIds, scenario, hostZone, args >>

NextJsonLd == CallJsonLd

SpecJsonLd == InitJsonLd /\ [][NextJsonLd]_vars

----------------------------------------------------------------------------
(* Properties of the fields of the structured-data strategy *)

Created == returned.op = "createEventFromJsonLd" /\ ~ returned.threw

(* The number a price text of the inputs denotes, 0 when it denotes none *)
PriceOfText(text) ==
    CASE text = "25" -> 25
      [] text = "51" -> 51
      [] OTHER -> 0

(* C36: an item with no startDate gives the extraction date and the time   *)
(* 'TBD'; an item with no offers gives price 0 and priceCategory 'free';   *)
(* an item with several offers gives the price of the first; an item with  *)
(* no url gives the source URL as externalLink, the empty string when the  *)
(* source URL is empty too.                                                *)
C36_StructuredDefaults ==
    Created =>
        LET jsonData == args.jsonData
            fields == returned.value
        IN  /\ jsonData.startDate.kind = "none"
                  => fields.date = ExtractionDate(args.t) /\ fields.time = "TBD"
            /\ jsonData.offers.kind = "none"
                  => fields.price = 0 /\ fields.priceCategory = "free"
            /\ ( jsonData.offers.kind = "list" /\ Len(jsonData.offers.prices) > 1 )
                  => fields.price = PriceOfText(jsonData.offers.prices[1])
            /\ jsonData.url = "" => fields.externalLink = args.sourceUrl

C36_Witness ==
    /\ Created
    /\ args.jsonData.startDate.kind = "none"
    /\ args.jsonData.offers = OfferList(<< "25", "51" >>)
    /\ args.jsonData.url = ""
    /\ args.sourceUrl = ""
    /\ returned.value.price = 25
    /\ returned.value.time = "TBD"
    /\ returned.value.externalLink = ""

----------------------------------------------------------------------------
(* The fields of a preview event that follow its category.  Emoji are      *)
(* written by their names.                                                 *)

getCategoryEmoji(category) ==
    CASE category = "music" -> "musical note"
      [] category = "food" -> "fork and knife with plate"
      [] category = "arts" -> "artist palette"
      [] category = "sports" -> "soccer ball"
      [] category = "outdoor" -> "deciduous tree"
      [] category = "education" -> "books"
      [] category = "community" -> "handshake"
      [] OTHER -> "calendar"

inferPersonalityTags(category) ==
    CASE category = "music" -> << "E", "N", "F", "P" >>
      [] category = "food" -> << "E", "S", "F", "J" >>
      [] category = "arts" -> << "I", "N", "F", "P" >>
      [] category = "sports" -> << "E", "S", "T", "J" >>
      [] category = "outdoor" -> << "E", "S", "F", "P" >>
      [] category = "education" -> << "I", "N", "T", "J" >>
      [] category = "community" -> << "E", "S", "F", "J" >>
      [] OTHER -> << "E", "N", "F", "P" >>

(* the description is a parameter the function never reads *)
inferVibes(category, description) ==
    CASE category = "music" -> << "energetic", "social", "creative" >>
      [] category = "food" -> << "relaxed", "social", "indulgent" >>
      [] category = "arts" -> << "creative", "intellectual", "inspiring" >>
      [] category = "sports" -> << "energetic", "competitive", "active" >>
      [] category = "outdoor" -> << "adventurous", "peaceful", "refreshing" >>
      [] category = "education" -> << "intellectual", "inspiring", "focused" >>
      [] category = "community" -> << "social", "welcoming", "meaningful" >>
      [] OTHER -> << "social", "fun" >>

(* The options of the category select of a preview card *)
CardCategories ==
    { "music", "food", "arts", "sports", "outdoor", "education", "community" }

(* The values of the Default Category field of the form: the categories    *)
(* of the tables and one the tables do not hold                            *)
FormCategories == CardCategories \cup { "nightlife" }

(* An event of the preview as both strategies build it, with the fields    *)
(* the cards edit.  The date and the externalLink are assigned as the      *)
(* venue and the time are and are not carried.                             *)
PreviewEvent(venue, category, description) ==
    [ venue |-> venue, category |-> category, description |-> description,
      time |-> "TBD", price |-> 0, priceCategory |-> "free",
      image |-> getCategoryEmoji(category),
      personalityTags |-> inferPersonalityTags(category),
      vibes |-> inferVibes(category, description) ]

(* scrapedEventsCache = events: one event for each description found *)
previewEvents(venue, category, descriptions) ==
    /\ IF descriptions = << >>
       THEN /\ lastAlert' = "No events found in the provided HTML. Try a different page or check the HTML structure."
            /\ UNCHANGED scrapedEventsCache
       ELSE /\ scrapedEventsCache' =
                  [ i \in 1..Len(descriptions) |->
                      PreviewEvent(venue, category, descriptions[i]) ]
            /\ lastAlert' = "Successfully extracted ${events.length} event(s)!"
    /\ UNCHANGED << savedEvents, isAdmin >>
    /\ UNCHANGED << userSubmittedEvents, events, reviews, currentEventId, stars,
                    reviewText, store, now, deletedIds, scenario >>

(* scrapedEventsCache[index][field] = value, then the price category when  *)
(* the price changed and the three fields of the category when the         *)
(* category changed                                                        *)
EditedField_EmojiOnly(event, field, value) ==
    LET assigned == [ event EXCEPT ![field] = value ]
    IN  CASE field = "price" ->
                 [ assigned EXCEPT !.priceCategory = PriceCategoryOfEdit(value) ]
          [] field = "category" ->
                 [ assigned EXCEPT !.image = getCategoryEmoji(value) ]
          [] OTHER -> assigned

EditedField(event, field, value) ==
    LET assigned == [ event EXCEPT ![field] = value ]
    IN  CASE field = "price" ->
                 [ assigned EXCEPT !.priceCategory = PriceCategoryOfEdit(value) ]
          [] field = "category" ->
                 [ assigned EXCEPT
                     !.image = getCategoryEmoji(value),
                     !.personalityTags = inferPersonalityTags(value),
                     !.vibes = inferVibes(value, assigned.description) ]
          [] OTHER -> assigned

editPreviewField(index, field, value) ==
    /\ scrapedEventsCache' =
          IF index \in 1..Len(scrapedEventsCache)
          THEN [ scrapedEventsCache EXCEPT ![index] = EditedField(@, field, value) ]
          ELSE scrapedEventsCache
    /\ lastAlert' = NoAlert
    /\ UNCHANGED << savedEvents, isAdmin >>
    /\ UNCHANGED << userSubmittedEvents, events, reviews, currentEventId, stars,
                    reviewText, store, now, deletedIds, scenario >>

PreviewDescriptions ==
    { << >>, << "Live jazz" >>, << "Live jazz", "Open mic" >> }

(* The values a card can give a field *)
CardValues(field) ==
    CASE field = "category" -> CardCategories
      [] field = "price" -> { 0, 25 }
      [] field = "description" -> { "Edited description" }
      [] field = "venue" -> { "Edited venue" }
      [] field = "time" -> { "8:00 PM" }

CardFields == { "category", "price", "description", "venue", "time" }

NextPreview ==
    \/ /\ \E category \in FormCategories, descriptions \in PreviewDescriptions :
             previewEvents("Example Venue", category, descriptions)
       /\ UNCHANGED callVars
    \/ /\ \E index \in 1..3, field \in CardFields :
             \E value \in CardValues(field) : editPreviewField(index, field, value)
       /\ UNCHANGED callVars

SpecPreview == Init /\ [][NextPreview]_vars

----------------------------------------------------------------------------
(* Properties of the category fields of the preview *)

(* C37: every event of scrapedEventsCache, after extraction and after any  *)
(* edits of its cards, has the image, personalityTags and vibes of the     *)
(* lookup tables for its current category, and the default values when     *)
(* the tables do not hold its category.                                    *)
C37_CategoryFieldsFollowCategory ==
    \A i \in 1..Len(scrapedEventsCache) :
        LET event == scrapedEventsCache[i]
        IN  /\ event.image = getCategoryEmoji(event.category)
            /\ event.personalityTags = inferPersonalityTags(event.category)
            /\ event.vibes = inferVibes(event.category, event.description)
            /\ event.category \notin CardCategories
                  => /\ event.image = "calendar"
                     /\ event.personalityTags = << "E", "N", "F", "P" >>
                     /\ event.vibes = << "social", "fun" >>

C37_Witness ==
    /\ Len(scrapedEventsCache) = 2
    /\ scrapedEventsCache[1].category = "nightlife"
    /\ scrapedEventsCache[1].image = "calendar"
    /\ scrapedEventsCache[1].price = 25
    /\ scrapedEventsCache[2].category = "arts"
    /\ scrapedEventsCache[2].description = "Edited description"
    /\ scrapedEventsCache[2].vibes = << "creative", "intellectual", "inspiring" >>

----------------------------------------------------------------------------
(* Properties of the move from the preview to the drafts *)

(* The draft is the event of the preview, with the id the approval gave it *)
Moved(draft, event) ==
    [ draft EXCEPT !.id = 0, !.obj = 0 ] = [ event EXCEPT !.id = 0, !.obj = 0 ]

(* The drafts are the old drafts followed by the given events, in order *)
Appended(moved) ==
    /\ Len(userSubmittedEvents') = Len(userSubmittedEvents) + Len(moved)
    /\ SubSeq(userSubmittedEvents', 1, Len(userSubmittedEvents)) = userSubmittedEvents
    /\ \A k \in 1..Len(moved) :
          Moved(userSubmittedEvents'[Len(userSubmittedEvents) + k], moved[k])

(* C38: approveSingleScrapedEvent on a valid index removes exactly that    *)
(* entry of the cache and appends that event once to the drafts; a         *)
(* confirmed bulkApproveScrapedEvents appends every entry of the cache     *)
(* once, in order, and empties the cache; an invalid index, an empty       *)
(* cache or a declined confirmation changes neither the cache nor the      *)
(* drafts; removeScrapedEvent never changes the drafts.                    *)
C38_ApprovalConservesEvents ==
    [][ /\ \A index \in 1..(Len(scrapedEventsCache) + 1), r \in Fractions :
              approveSingleScrapedEvent(index, now, r)
              => IF index <= Len(scrapedEventsCache)
                 THEN /\ scrapedEventsCache' = RemoveAt(scrapedEventsCache, index)
                      /\ Appended(<< scrapedEventsCache[index] >>)
                 ELSE UNCHANGED << scrapedEventsCache, userSubmittedEvents >>
        /\ \A confirmed \in BOOLEAN, rs \in Randoms(Len(scrapedEventsCache)) :
              bulkApproveScrapedEvents(confirmed, now, rs)
              => IF confirmed /\ Len(scrapedEventsCache) > 0
                 THEN /\ scrapedEventsCache' = << >>
                      /\ Appended(scrapedEventsCache)
                 ELSE UNCHANGED << scrapedEventsCache, userSubmittedEvents >>
        /\ \A index \in 1..(Len(scrapedEventsCache) + 1) :
              removeScrapedEvent(index) => UNCHANGED userSubmittedEvents
      ]_vars

C38_Witness ==
    /\ lastAlert = "Successfully added ${count} event(s) to pending events!"
    /\ scrapedEventsCache = << >>
    /\ Len(userSubmittedEvents) >= 2
    /\ ~ Moved(userSubmittedEvents[Len(userSubmittedEvents)],
               userSubmittedEvents[Len(userSubmittedEvents) - 1])

----------------------------------------------------------------------------
(* Properties of the administrator session *)

(* A step changed the drafts, the view or what the store holds of them *)
ModerationChange ==
    \/ userSubmittedEvents' # userSubmittedEvents
    \/ events' # events
    \/ store' # store

(* isAdmin becomes true only by promptAdminLogin with the password; a      *)
(* wrong or cancelled prompt leaves it as it is; logout sets it false      *)
LoginOnlyByPassword ==
    /\ ( ~ isAdmin /\ isAdmin' ) => promptAdminLogin(adminPassword)
    /\ \A password \in Passwords \ { adminPassword } :
          promptAdminLogin(password) => UNCHANGED isAdmin
    /\ adminLogout => ~ isAdmin'

(* C39: approveEvent, rejectEvent and deleteEvent change AppState only     *)
(* while isAdmin is true, and isAdmin becomes true only through            *)
(* promptAdminLogin with the password adminPassword: a wrong or cancelled  *)
(* prompt leaves it false and logout sets it false.                        *)
C39_ModerationIsAdminOnly ==
    [][ /\ \A eventId \in IdsOf(userSubmittedEvents) :
              ( /\ \/ approveEvent(eventId)
                   \/ rejectEvent(eventId)
                   \/ deleteEvent(eventId, TRUE)
                /\ ModerationChange )
              => isAdmin
        /\ LoginOnlyByPassword
      ]_vars

====
